---- MODULE Spec2Model ----
(***************************************************************************)
(* The attendance server (src/server.js): one JSON document on disk, an    *)
(* in-memory reference to the last parsed or saved document (dataCache),   *)
(* and asynchronous Express handlers that load the document, edit the      *)
(* loaded object in place and write the whole document back.               *)
(*                                                                         *)
(* A handler runs without interruption between two awaits, so one action   *)
(* is one such run: the arrival of a request up to its first file          *)
(* operation, the completion of a read up to the next file operation, the  *)
(* opening of the file for writing, and the completion of a write up to    *)
(* the response.  Requests interleave only at these points.                *)
(*                                                                         *)
(* Modelling domain: roll numbers, names, statuses and subjects are        *)
(* strings; subjects are ordinary keys (none is the name of a member of    *)
(* Object.prototype); attendance items carry roll_no and status only.      *)
(***************************************************************************)
EXTENDS Integers, Sequences, FiniteSets, TLC

(***************************************************************************)
(* Bounds of the model.                                                    *)
(***************************************************************************)
NProc == 2
MaxReq == 3
MaxSeqReq == 4
MaxFail == 1

Procs == 1 .. NProc
ObjIds == 1 .. (NProc + 1)
NoObj == 0

(***************************************************************************)
(* Strings the requests are built from.                                    *)
(***************************************************************************)
RollNos == {"001", "002"}
UnknownRoll == "999"
BlankRoll == "  "
Names == {"Ann", "Bob"}
GoodDates == {"2024-01-01", "2024-01-02"}
BadDate == "2024-1-1"
DateParams == GoodDates \cup {BadDate}
SubjectParams == {"Physics", "Applied%20Physics"}

\* The characters of the strings that the code inspects character by character.
Chars(s) ==
    CASE s = "2024-01-01" -> <<"2", "0", "2", "4", "-", "0", "1", "-", "0", "1">>
      [] s = "2024-01-02" -> <<"2", "0", "2", "4", "-", "0", "1", "-", "0", "2">>
      [] s = "2024-1-1" -> <<"2", "0", "2", "4", "-", "1", "-", "1">>
      [] s = "001" -> <<"0", "0", "1">>
      [] s = "002" -> <<"0", "0", "2">>
      [] s = "999" -> <<"9", "9", "9">>
      [] s = "  " -> <<" ", " ">>
      [] s = "" -> << >>
      [] s = "Ann" -> <<"A", "n", "n">>
      [] s = "Bob" -> <<"B", "o", "b">>
      [] OTHER -> <<s>>

Digits == {"0", "1", "2", "3", "4", "5", "6", "7", "8", "9"}

\* A variant that accepts days and months of one digit.
IsDateFormatUnpadded(date) ==
    LET c == Chars(date) IN
    /\ Len(c) >= 8
    /\ \A i \in 1 .. 4 : c[i] \in Digits
    /\ c[5] = "-"

\* /^\d{4}-\d{2}-\d{2}$/.test(date)
IsDateFormat(date) ==
    LET c == Chars(date) IN
    /\ Len(c) = 10
    /\ \A i \in {1, 2, 3, 4, 6, 7, 9, 10} : c[i] \in Digits
    /\ c[5] = "-"
    /\ c[8] = "-"

\* decodeURIComponent(req.params.subject)
DecodeURIComponent(s) ==
    CASE s = "Applied%20Physics" -> "Applied Physics"
      [] OTHER -> s

\* String.prototype.trim
Trim(s) ==
    LET c == Chars(s) IN
    IF \A i \in 1 .. Len(c) : c[i] = " " THEN "" ELSE s

\* The position of a character in the collation order; the strings compared
\* here are made of digits, which collate in numeric order.
CharRank(ch) ==
    CASE ch = "0" -> 0 [] ch = "1" -> 1 [] ch = "2" -> 2 [] ch = "3" -> 3
      [] ch = "4" -> 4 [] ch = "5" -> 5 [] ch = "6" -> 6 [] ch = "7" -> 7
      [] ch = "8" -> 8 [] ch = "9" -> 9 [] OTHER -> 10

RECURSIVE CompareChars(_, _)
CompareChars(a, b) ==
    IF a = << >> /\ b = << >> THEN 0
    ELSE IF a = << >> THEN -1
    ELSE IF b = << >> THEN 1
    ELSE IF CharRank(Head(a)) < CharRank(Head(b)) THEN -1
    ELSE IF CharRank(Head(a)) > CharRank(Head(b)) THEN 1
    ELSE CompareChars(Tail(a), Tail(b))

\* a.localeCompare(b): negative, zero or positive
LocaleCompare(a, b) == CompareChars(Chars(a), Chars(b))

(***************************************************************************)
(* Documents.  A document is {students, attendance}; attendance maps a     *)
(* subject to a map from a date to a list of entries.                      *)
(***************************************************************************)
EmptyMap == [k \in {} |-> << >>]
EmptyDoc == [students |-> << >>, attendance |-> EmptyMap]

Put(m, k, v) == [x \in (DOMAIN m) \cup {k} |-> IF x = k THEN v ELSE m[x]]

RECURSIVE SelectSeqBy(_, _)
\* Array.prototype.filter keeping the elements whose roll_no is not r
SelectSeqBy(s, r) ==
    IF s = << >> THEN << >>
    ELSE IF Head(s).roll_no # r
         THEN <<Head(s)>> \o SelectSeqBy(Tail(s), r)
         ELSE SelectSeqBy(Tail(s), r)

\* data.students.find(s => s.roll_no === r): the first match, or none
HasStudent(students, r) == \E i \in 1 .. Len(students) : students[i].roll_no = r
FindStudent(students, r) ==
    LET i == CHOOSE i \in 1 .. Len(students) :
                 /\ students[i].roll_no = r
                 /\ \A j \in 1 .. (i - 1) : students[j].roll_no # r
    IN students[i]

RECURSIVE InsertSorted(_, _)
\* One step of a stable sort: x goes after every element that does not
\* compare greater than it.
InsertSorted(sorted, x) ==
    IF sorted = << >> THEN <<x>>
    ELSE IF LocaleCompare(Head(sorted).roll_no, x.roll_no) > 0
         THEN <<x>> \o sorted
         ELSE <<Head(sorted)>> \o InsertSorted(Tail(sorted), x)

\* A variant that leaves the order as it is.
SortByRollNoUnsorted(s) == s

RECURSIVE SortByRollNo(_)
\* students.sort((a, b) => (a.roll_no || '').localeCompare(b.roll_no || '')),
\* a stable sort
SortByRollNo(s) ==
    IF s = << >> THEN << >>
    ELSE InsertSorted(SortByRollNo(SubSeq(s, 1, Len(s) - 1)), s[Len(s)])

(***************************************************************************)
(* The backing file.  Its text is absent, unparsable (which includes the   *)
(* empty text of a file that was opened for writing and not yet written),  *)
(* a falsy JSON value, or a JSON object that may lack either key.          *)
(***************************************************************************)
FileText(kind, fields, students, attendance) ==
    [kind |-> kind, fields |-> fields, students |-> students, attendance |-> attendance]

AbsentFile == FileText("absent", {}, << >>, EmptyMap)
UnparsableFile == FileText("unparsable", {}, << >>, EmptyMap)
NullFile == FileText("null", {}, << >>, EmptyMap)

\* JSON.stringify(data, null, 2)
Stringify(doc) ==
    FileText("object", {"students", "attendance"}, doc.students, doc.attendance)

\* A variant that salvages a roster of one student from a text that does
\* not parse.
ParseAndBackfillSalvage(text) ==
    IF text.kind = "object"
    THEN [students |-> IF "students" \in text.fields THEN text.students ELSE << >>,
          attendance |-> IF "attendance" \in text.fields THEN text.attendance ELSE EmptyMap]
    ELSE [students |-> <<[roll_no |-> "001", name |-> "Ann", course |-> "N/A"]>>,
          attendance |-> EmptyMap]

\* JSON.parse(fileContent) and the backfill of the missing keys; the caller
\* handles the unparsable text
ParseAndBackfill(text) ==
    IF text.kind = "object"
    THEN [students |-> IF "students" \in text.fields THEN text.students ELSE << >>,
          attendance |-> IF "attendance" \in text.fields THEN text.attendance ELSE EmptyMap]
    ELSE EmptyDoc

(***************************************************************************)
(* Requests and responses.                                                 *)
(***************************************************************************)
Request(op, roll_no, name, course, subject, date, isArray, body) ==
    [op |-> op, roll_no |-> roll_no, name |-> name, course |-> course,
     subject |-> subject, date |-> date, isArray |-> isArray, body |-> body]

Item(roll_no, status) == [roll_no |-> roll_no, status |-> status]

StartupRequest == Request("startup", "", "", "", "", "", FALSE, << >>)
NoRequest == Request("none", "", "", "", "", "", FALSE, << >>)

\* POST /api/students bodies: complete ones, and ones lacking a field
AddRequests ==
    {Request("addStudent", "001", "Ann", "", "", "", FALSE, << >>),
     Request("addStudent", "001", "Bob", "BSc", "", "", FALSE, << >>),
     Request("addStudent", "002", "Bob", "BSc", "", "", FALSE, << >>),
     Request("addStudent", "", "Ann", "", "", "", FALSE, << >>),
     Request("addStudent", "002", "", "BSc", "", "", FALSE, << >>)}

RemoveRequests ==
    {Request("removeStudent", r, "", "", "", "", FALSE, << >>) : r \in RollNos}

\* POST /api/attendance/:subject/:date bodies
SetAttendance(subject, date, body) ==
    Request("setAttendance", "", "", "", subject, date, TRUE, body)

SetRequests ==
    {SetAttendance("Physics", "2024-01-01", <<Item("001", "present")>>),
     SetAttendance("Physics", "2024-01-01",
                   <<Item("001", "absent"), Item("002", "present")>>),
     SetAttendance("Physics", "2024-01-01",
                   <<Item("002", "present"), Item(UnknownRoll, "absent")>>),
     SetAttendance("Physics", "2024-01-02",
                   <<Item("001", "absent"), Item("002", "present")>>),
     SetAttendance("Applied%20Physics", "2024-01-01",
                   <<Item(UnknownRoll, "present"), Item("001", "present")>>),
     \* rejected by the validation
     SetAttendance("Physics", "2024-01-01",
                   <<Item("001", "present"), Item("002", "late")>>),
     SetAttendance("Physics", "2024-01-01",
                   <<Item("002", "absent"), Item(BlankRoll, "present")>>),
     SetAttendance("Physics", BadDate, <<Item("001", "present")>>),
     SetAttendance("", "2024-01-01", <<Item("001", "present")>>),
     Request("setAttendance", "", "", "", "Physics", "2024-01-01", FALSE, << >>)}

ReadRequests ==
    {Request("getStudents", "", "", "", "", "", FALSE, << >>),
     Request("getAttendanceAll", "", "", "", "", "", FALSE, << >>)}
    \cup {Request(op, "", "", "", "Physics", d, FALSE, << >>) :
            op \in {"getAttendance", "print"}, d \in {"2024-01-01", BadDate}}
    \cup {Request(op, "", "", "", "", "2024-01-01", FALSE, << >>) :
            op \in {"getAttendance", "print"}}

Requests == AddRequests \cup RemoveRequests \cup SetRequests \cup ReadRequests

\* The requests that are let overlap.
OverlappingRequests ==
    {Request("addStudent", "001", "Ann", "", "", "", FALSE, << >>),
     Request("addStudent", "001", "Bob", "BSc", "", "", FALSE, << >>),
     Request("addStudent", "002", "Bob", "BSc", "", "", FALSE, << >>),
     Request("removeStudent", "001", "", "", "", "", FALSE, << >>),
     SetAttendance("Physics", "2024-01-01",
                   <<Item("001", "absent"), Item("002", "present")>>),
     SetAttendance("Physics", BadDate, <<Item("001", "present")>>),
     Request("getStudents", "", "", "", "", "", FALSE, << >>),
     Request("getAttendance", "", "", "", "Physics", BadDate, FALSE, << >>),
     Request("print", "", "", "", "Physics", BadDate, FALSE, << >>)}

Response(status, msg, students, list, att) ==
    [status |-> status, msg |-> msg, students |-> students, list |-> list, att |-> att]

NoResponse == Response(0, "", << >>, << >>, EmptyMap)
Message(status, msg) == Response(status, msg, << >>, << >>, EmptyMap)

(***************************************************************************)
(* The synchronous part of each handler.                                   *)
(***************************************************************************)
ValidStatuses == {"present", "absent"}

\* A variant that accepts any status.
IsValidItemAnyStatus(item) == Trim(item.roll_no) # ""

\* item && typeof item.roll_no === 'string' && item.roll_no.trim() !== '' &&
\* typeof item.status === 'string' && validStatuses.includes(item.status)
IsValidItem(item) ==
    /\ Trim(item.roll_no) # ""
    /\ item.status \in ValidStatuses

IsValidList(list) == \A i \in 1 .. Len(list) : IsValidItem(list[i])

\* What a handler answers before it loads anything; status 0 when the
\* request passes its validation.
Validate(r) ==
    CASE r.op = "addStudent" ->
            IF r.roll_no = "" \/ r.name = ""
            THEN Message(400, "Roll number and name are required.")
            ELSE NoResponse
      [] r.op \in {"getAttendance", "print", "setAttendance"} ->
            IF ~IsDateFormat(r.date)
            THEN Message(400, "Invalid date format. Use YYYY-MM-DD.")
            ELSE IF DecodeURIComponent(r.subject) = ""
            THEN Message(400, "Subject is required.")
            ELSE IF r.op # "setAttendance" THEN NoResponse
            ELSE IF ~r.isArray
            THEN Message(400, "Invalid data format. Expected an array.")
            ELSE IF ~IsValidList(r.body)
            THEN Message(400, "Invalid attendance data in the list.")
            ELSE NoResponse
      [] OTHER -> NoResponse

\* A variant that looks at the first student only.
ExistingFirst(students, roll_no) ==
    Len(students) > 0 /\ students[1].roll_no = roll_no

\* A duplicate check that finds nothing.
ExistingNever(students, roll_no) == FALSE

\* A cascade that leaves the attendance as it is.
FilterAttendanceNone(attendance, roll_no) == attendance

\* const existing = data.students.find(s => s.roll_no === roll_no)
Existing(students, roll_no) == HasStudent(students, roll_no)

\* A variant without the default course.
NewStudentNoDefault(r) == [roll_no |-> r.roll_no, name |-> r.name, course |-> r.course]

\* const newStudent = { roll_no, name, course: course || "N/A" }
NewStudent(r) ==
    [roll_no |-> r.roll_no, name |-> r.name,
     course |-> IF r.course = "" THEN "N/A" ELSE r.course]

\* data.students.push(newStudent); data.students.sort(...)
AddStudentEdit(doc, r) ==
    [doc EXCEPT !.students = SortByRollNo(Append(doc.students, NewStudent(r)))]

\* the forEach over the subjects and their dates, filtering every bucket
FilterAttendance(attendance, roll_no) ==
    [s \in DOMAIN attendance |->
        [d \in DOMAIN attendance[s] |-> SelectSeqBy(attendance[s][d], roll_no)]]

\* A variant that finds every roll number.
NotFoundNever(students, roll_no) == FALSE

\* data.students.length === initialLength, after the filter
NotFound(students, roll_no) ==
    Len(SelectSeqBy(students, roll_no)) = Len(students)

\* A variant that removes the student from the roster only.
RemoveStudentEditRosterOnly(doc, roll_no) ==
    [students |-> SelectSeqBy(doc.students, roll_no),
     attendance |-> doc.attendance]

\* data.students = data.students.filter(...), then the filter of the buckets
RemoveStudentEdit(doc, roll_no) ==
    [students |-> SelectSeqBy(doc.students, roll_no),
     attendance |-> FilterAttendance(doc.attendance, roll_no)]

\* A variant that keeps unknown roll numbers under the name "Unknown".
EnrichUnknown(list, students) ==
    [i \in 1 .. Len(list) |->
        [roll_no |-> list[i].roll_no, status |-> list[i].status,
         name |-> IF HasStudent(students, list[i].roll_no)
                  THEN FindStudent(students, list[i].roll_no).name
                  ELSE "Unknown"]]

\* A variant that keeps every item, one of an unknown roll number under the
\* name it came with.
EnrichNoFilter(list, students) ==
    [i \in 1 .. Len(list) |->
        [roll_no |-> list[i].roll_no, status |-> list[i].status,
         name |-> IF HasStudent(students, list[i].roll_no)
                  THEN FindStudent(students, list[i].roll_no).name
                  ELSE ""]]

RECURSIVE Enrich(_, _)
\* attendanceList.map(att => student ? {...att, name: student.name} : null)
\*               .filter(Boolean)
Enrich(list, students) ==
    IF list = << >> THEN << >>
    ELSE IF HasStudent(students, Head(list).roll_no)
         THEN <<[roll_no |-> Head(list).roll_no, status |-> Head(list).status,
                 name |-> FindStudent(students, Head(list).roll_no).name]>>
              \o Enrich(Tail(list), students)
         ELSE Enrich(Tail(list), students)

\* A variant that appends to the list the bucket holds.
StoreBucketAppend(attendance, subject, date, list) ==
    LET old == IF subject \in DOMAIN attendance THEN attendance[subject] ELSE EmptyMap
        was == IF date \in DOMAIN old THEN old[date] ELSE << >>
    IN Put(attendance, subject, Put(old, date, was \o list))

\* if (!data.attendance[subject]) data.attendance[subject] = {};
\* data.attendance[subject][date] = enrichedAttendance
StoreBucket(attendance, subject, date, list) ==
    LET withSubject == IF subject \in DOMAIN attendance THEN attendance
                       ELSE Put(attendance, subject, EmptyMap)
    IN Put(withSubject, subject, Put(withSubject[subject], date, list))

\* A variant that starts the subject afresh.
SetAttendanceEditResetSubject(doc, subject, date, body) ==
    [doc EXCEPT !.attendance =
        Put(doc.attendance, subject, Put(EmptyMap, date, Enrich(body, doc.students)))]

SetAttendanceEdit(doc, subject, date, body) ==
    [doc EXCEPT !.attendance =
        StoreBucket(doc.attendance, subject, date, Enrich(body, doc.students))]

\* A variant that reads the bucket of the date, without subjects.
BucketFlat(doc, subject, date) ==
    IF date \in DOMAIN doc.attendance THEN doc.attendance[date] ELSE << >>

\* data.attendance?.[subject]?.[date] || []
Bucket(doc, subject, date) ==
    IF subject \in DOMAIN doc.attendance /\ date \in DOMAIN doc.attendance[subject]
    THEN doc.attendance[subject][date]
    ELSE << >>

RECURSIVE PresentOnly(_)
\* attendanceList.filter(s => s.status === 'present')
PresentOnly(list) ==
    IF list = << >> THEN << >>
    ELSE IF Head(list).status = "present"
         THEN <<Head(list)>> \o PresentOnly(Tail(list))
         ELSE PresentOnly(Tail(list))

\* What a handler answers once its saveData call has returned.
Saved(r) ==
    CASE r.op = "addStudent" -> Response(201, "", <<NewStudent(r)>>, << >>, EmptyMap)
      [] r.op = "removeStudent" -> Message(200, "deleted successfully")
      [] OTHER -> Message(200, "saved successfully")

\* The handler from the return of loadData to its response or to its call of
\* saveData: the loaded object after the handler's edits, whether saveData is
\* called, and the response sent when it is not.
Handle(r, doc) ==
    LET subject == DecodeURIComponent(r.subject)
        out(d, save, resp) == [doc |-> d, save |-> save, resp |-> resp]
    IN
    CASE r.op = "getStudents" ->
            out(doc, FALSE, Response(200, "", doc.students, << >>, EmptyMap))
      [] r.op = "getAttendanceAll" ->
            out(doc, FALSE, Response(200, "", << >>, << >>, doc.attendance))
      [] r.op = "getAttendance" ->
            out(doc, FALSE,
                Response(200, "", << >>, Bucket(doc, subject, r.date), EmptyMap))
      [] r.op = "print" ->
            out(doc, FALSE,
                Response(200, "html", doc.students,
                         PresentOnly(Bucket(doc, subject, r.date)), EmptyMap))
      [] r.op = "addStudent" ->
            IF Existing(doc.students, r.roll_no)
            THEN out(doc, FALSE, Message(400, "already exists"))
            ELSE out(AddStudentEdit(doc, r), TRUE, NoResponse)
      [] r.op = "removeStudent" ->
            IF NotFound(doc.students, r.roll_no)
            THEN out(doc, FALSE, Message(404, "not found"))
            ELSE out(RemoveStudentEdit(doc, r.roll_no), TRUE, NoResponse)
      [] r.op = "setAttendance" ->
            out(SetAttendanceEdit(doc, subject, r.date, r.body), TRUE, NoResponse)
      [] OTHER -> out(doc, FALSE, Message(0, "started"))

(***************************************************************************)
(* State.                                                                  *)
(***************************************************************************)
VARIABLES
    file,       \* the text of data.json
    dataCache,  \* the object dataCache refers to, NoObj for null
    heap,       \* the documents in memory, by object
    pc,         \* where each request is: idle, reading, writing, flushing, done
    req,        \* the request each slot serves
    data,       \* the object the request's loadData / handler holds
    phase,      \* whether the write in progress was started by loadData or by the handler
    pending,    \* dataString of the request's saveData call
    resp,       \* the response sent
    nreq,       \* requests received so far
    seq,        \* history: the ordinal of the request in each slot
    before,     \* history: the file when the request arrived
    saves,      \* history: saveData calls made by the request's handler
    opens,      \* history: times the request opened the file for writing
    ioFailed,   \* history: whether a file operation of the request failed
    saveFailed, \* history: whether the writeFile of the handler's saveData call failed
    repeat,     \* history: whether the request repeats the one served just before it
    loaded,     \* history: the text the request's readFile yielded
    got,        \* history: the document loadData returned to the request's handler
    lastSet,    \* history: per bucket, the list the last setAttendance answered 200 stored
    lastSaved,  \* history: the document of the last saveData call that succeeded, and its request
    nfail,      \* file operations that have failed so far
    \* the synchronous variant of the server (students.json, attendance.json)
    studentList,     \* its `students`
    attendanceData,  \* its `attendanceData`, by date
    studentsFile,    \* the text of students.json
    attendanceFile,  \* the text of attendance.json
    reply,           \* the response it sent last
    nsave            \* writeFileSync calls of it that have failed so far

vars == <<file, dataCache, heap, pc, req, data, phase, pending, resp, nreq,
          seq, before, saves, opens, ioFailed, saveFailed, repeat, loaded, got,
          lastSet, lastSaved, nfail>>

syncVars == <<studentList, attendanceData, studentsFile, attendanceFile, reply, nsave>>

allVars == <<vars, syncVars>>

(***************************************************************************)
(* The synchronous variant keeps the roster in students.json and the       *)
(* attendance lists, by date, in attendance.json.  The text of a file is   *)
(* what JSON.stringify wrote, or is cut short when writeFileSync failed    *)
(* after it had emptied the file.                                          *)
(***************************************************************************)
StudentsText(list) == [kind |-> "array", students |-> list]
AttendanceText(byDate) == [kind |-> "object", attendance |-> byDate]
CutText == [kind |-> "cut"]
NoReply == [kind |-> "none"]

\* The variant has started on files that hold `[]` and `{}`.
SyncInit ==
    /\ studentList = << >>
    /\ attendanceData = [d \in {} |-> << >>]
    /\ studentsFile = StudentsText(<< >>)
    /\ attendanceFile = AttendanceText([d \in {} |-> << >>])
    /\ reply = NoReply
    /\ nsave = 0

EmptyFile == FileText("empty", {}, << >>, EmptyMap)

\* What `loaded` holds before readFile has settled, and after it has failed.
Unread == FileText("unread", {}, << >>, EmptyMap)
Unreadable == FileText("unreadable", {}, << >>, EmptyMap)

\* What `lastSaved` holds before any saveData call has succeeded.
NoSave == [doc |-> EmptyDoc, seq |-> -1]

\* The file when the process starts: none yet, or the empty document.
FreshFiles == {AbsentFile, Stringify(EmptyDoc)}

\* app.listen's callback calls loadData() once as the process starts.
Init ==
    /\ file \in FreshFiles
    /\ dataCache = NoObj
    /\ heap = [o \in ObjIds |-> EmptyDoc]
    /\ pc = [p \in Procs |-> IF p = 1 THEN "reading" ELSE "idle"]
    /\ req = [p \in Procs |-> IF p = 1 THEN StartupRequest ELSE NoRequest]
    /\ data = [p \in Procs |-> NoObj]
    /\ phase = [p \in Procs |-> "handler"]
    /\ pending = [p \in Procs |-> EmptyFile]
    /\ resp = [p \in Procs |-> NoResponse]
    /\ nreq = 0
    /\ seq = [p \in Procs |-> 0]
    /\ before = [p \in Procs |-> file]
    /\ saves = [p \in Procs |-> 0]
    /\ opens = [p \in Procs |-> 0]
    /\ ioFailed = [p \in Procs |-> FALSE]
    /\ saveFailed = [p \in Procs |-> FALSE]
    /\ repeat = [p \in Procs |-> FALSE]
    /\ loaded = [p \in Procs |-> Unread]
    /\ got = [p \in Procs |-> EmptyDoc]
    /\ lastSet = EmptyMap
    /\ lastSaved = NoSave
    /\ nfail = 0
    /\ SyncInit

Live(cache, refs) == ({cache} \cup {refs[q] : q \in Procs}) \ {NoObj}

\* The object a `{...}` literal or JSON.parse creates: one nothing refers to.
FreshObj ==
    CHOOSE o \in ObjIds \ Live(dataCache, data) :
        \A o2 \in ObjIds \ Live(dataCache, data) : o <= o2

\* Objects nothing refers to are gone.
Collect(h, cache, refs) ==
    [o \in ObjIds |-> IF o \in Live(cache, refs) THEN h[o] ELSE EmptyDoc]

InFlight(p) == pc[p] \in {"reading", "writing", "flushing"}

(***************************************************************************)
(* loadData has returned object o to the handler of request p, the heap    *)
(* being h and dataCache being cache: the handler runs to its response or  *)
(* to the writeFile of its saveData call.                                   *)
(***************************************************************************)
AfterLoad(p, o, h, cache) ==
    LET out == Handle(req[p], h[o])
        h2 == [h EXCEPT ![o] = out.doc]
    IN
    /\ got' = [got EXCEPT ![p] = h[o]]
    /\ IF out.save
       THEN /\ pc' = [pc EXCEPT ![p] = "writing"]
            /\ phase' = [phase EXCEPT ![p] = "handler"]
            /\ pending' = [pending EXCEPT ![p] = Stringify(out.doc)]
            /\ data' = [data EXCEPT ![p] = o]
            /\ saves' = [saves EXCEPT ![p] = @ + 1]
            /\ resp' = resp
            /\ heap' = Collect(h2, cache, [data EXCEPT ![p] = o])
       ELSE /\ pc' = [pc EXCEPT ![p] = "done"]
            /\ phase' = [phase EXCEPT ![p] = "handler"]
            /\ pending' = pending
            /\ data' = [data EXCEPT ![p] = NoObj]
            /\ saves' = saves
            /\ resp' = [resp EXCEPT ![p] = out.resp]
            /\ heap' = Collect(h2, cache, [data EXCEPT ![p] = NoObj])

Quiet == \A q \in Procs : ~InFlight(q)

\* Whether request r, arriving now, comes right after an identical request
\* that was answered 200, no other request being in flight.
RepeatsLast(r) ==
    /\ Quiet
    /\ \E q \in Procs :
          /\ pc[q] = "done"
          /\ seq[q] = nreq
          /\ req[q] = r
          /\ resp[q].status = 200

\* A variant in which loadData returns dataCache when it is set and reads
\* the file only when it is not.
ReceiveCached(p, r, max) ==
    /\ pc[p] \in {"idle", "done"}
    /\ \A q \in Procs : q < p => InFlight(q)
    /\ nreq < max
    /\ nreq' = nreq + 1
    /\ seq' = [seq EXCEPT ![p] = nreq + 1]
    /\ req' = [req EXCEPT ![p] = r]
    /\ before' = [before EXCEPT ![p] = file]
    /\ opens' = [opens EXCEPT ![p] = 0]
    /\ ioFailed' = [ioFailed EXCEPT ![p] = FALSE]
    /\ saveFailed' = [saveFailed EXCEPT ![p] = FALSE]
    /\ repeat' = [repeat EXCEPT ![p] = RepeatsLast(r)]
    /\ loaded' = [loaded EXCEPT ![p] = Unread]
    /\ IF Validate(r).status # 0
       THEN /\ pc' = [pc EXCEPT ![p] = "done"]
            /\ resp' = [resp EXCEPT ![p] = Validate(r)]
            /\ got' = [got EXCEPT ![p] = EmptyDoc]
            /\ pending' = [pending EXCEPT ![p] = EmptyFile]
            /\ saves' = [saves EXCEPT ![p] = 0]
            /\ UNCHANGED <<heap, data, phase>>
       ELSE IF dataCache = NoObj
       THEN /\ pc' = [pc EXCEPT ![p] = "reading"]
            /\ resp' = [resp EXCEPT ![p] = NoResponse]
            /\ got' = [got EXCEPT ![p] = EmptyDoc]
            /\ pending' = [pending EXCEPT ![p] = EmptyFile]
            /\ saves' = [saves EXCEPT ![p] = 0]
            /\ UNCHANGED <<heap, data, phase>>
       ELSE LET out == Handle(r, heap[dataCache]) IN
            /\ got' = [got EXCEPT ![p] = heap[dataCache]]
            /\ heap' = [heap EXCEPT ![dataCache] = out.doc]
            /\ phase' = [phase EXCEPT ![p] = "handler"]
            /\ IF out.save
               THEN /\ pc' = [pc EXCEPT ![p] = "writing"]
                    /\ resp' = [resp EXCEPT ![p] = NoResponse]
                    /\ pending' = [pending EXCEPT ![p] = Stringify(out.doc)]
                    /\ data' = [data EXCEPT ![p] = dataCache]
                    /\ saves' = [saves EXCEPT ![p] = 1]
               ELSE /\ pc' = [pc EXCEPT ![p] = "done"]
                    /\ resp' = [resp EXCEPT ![p] = out.resp]
                    /\ pending' = [pending EXCEPT ![p] = EmptyFile]
                    /\ data' = [data EXCEPT ![p] = NoObj]
                    /\ saves' = [saves EXCEPT ![p] = 0]
    /\ UNCHANGED <<file, dataCache, lastSet, lastSaved, nfail>>
    /\ UNCHANGED syncVars

\* A variant in which the handler calls loadData before it validates the
\* request.
ReceiveLoadsFirst(p, r, max) ==
    /\ pc[p] \in {"idle", "done"}
    /\ \A q \in Procs : q < p => InFlight(q)
    /\ nreq < max
    /\ nreq' = nreq + 1
    /\ seq' = [seq EXCEPT ![p] = nreq + 1]
    /\ req' = [req EXCEPT ![p] = r]
    /\ before' = [before EXCEPT ![p] = file]
    /\ saves' = [saves EXCEPT ![p] = 0]
    /\ opens' = [opens EXCEPT ![p] = 0]
    /\ ioFailed' = [ioFailed EXCEPT ![p] = FALSE]
    /\ saveFailed' = [saveFailed EXCEPT ![p] = FALSE]
    /\ repeat' = [repeat EXCEPT ![p] = RepeatsLast(r)]
    /\ loaded' = [loaded EXCEPT ![p] = Unread]
    /\ got' = [got EXCEPT ![p] = EmptyDoc]
    /\ pending' = [pending EXCEPT ![p] = EmptyFile]
    /\ pc' = [pc EXCEPT ![p] = "reading"]
    /\ resp' = [resp EXCEPT ![p] = NoResponse]
    /\ UNCHANGED <<file, dataCache, heap, data, phase, lastSet, lastSaved, nfail>>
    /\ UNCHANGED syncVars

(***************************************************************************)
(* A request arrives: the handler validates it and either answers 400 or   *)
(* calls loadData, which starts reading the file.                          *)
(***************************************************************************)
Receive(p, r, max) ==
    /\ pc[p] \in {"idle", "done"}
    /\ \A q \in Procs : q < p => InFlight(q)
    /\ nreq < max
    /\ nreq' = nreq + 1
    /\ seq' = [seq EXCEPT ![p] = nreq + 1]
    /\ req' = [req EXCEPT ![p] = r]
    /\ before' = [before EXCEPT ![p] = file]
    /\ saves' = [saves EXCEPT ![p] = 0]
    /\ opens' = [opens EXCEPT ![p] = 0]
    /\ ioFailed' = [ioFailed EXCEPT ![p] = FALSE]
    /\ saveFailed' = [saveFailed EXCEPT ![p] = FALSE]
    /\ repeat' = [repeat EXCEPT ![p] = RepeatsLast(r)]
    /\ loaded' = [loaded EXCEPT ![p] = Unread]
    /\ got' = [got EXCEPT ![p] = EmptyDoc]
    /\ pending' = [pending EXCEPT ![p] = EmptyFile]
    /\ IF Validate(r).status # 0
       THEN /\ pc' = [pc EXCEPT ![p] = "done"]
            /\ resp' = [resp EXCEPT ![p] = Validate(r)]
       ELSE /\ pc' = [pc EXCEPT ![p] = "reading"]
            /\ resp' = [resp EXCEPT ![p] = NoResponse]
    /\ UNCHANGED <<file, dataCache, heap, data, phase, lastSet, lastSaved, nfail>>
    /\ UNCHANGED syncVars

\* A variant in which loadData does not save the default document it
\* creates for an absent file.
ReadDoneNoDefaultSave(p) ==
    /\ pc[p] = "reading"
    /\ LET o == FreshObj IN
       /\ dataCache' = o
       /\ AfterLoad(p, o, [heap EXCEPT ![o] = ParseAndBackfill(file)], o)
    /\ loaded' = [loaded EXCEPT ![p] = file]
    /\ UNCHANGED <<file, req, nreq, seq, before, opens, ioFailed, saveFailed, repeat,
                   lastSet, lastSaved, nfail>>
    /\ UNCHANGED syncVars

\* A variant that also saves the default document over a text that does not
\* parse.
ReadSettleSavesDefault(p, text) ==
    /\ pc[p] = "reading"
    /\ LET o == FreshObj IN
       IF text.kind \in {"absent", "unparsable", "empty"}
       THEN /\ dataCache' = o
            /\ heap' = Collect([heap EXCEPT ![o] = EmptyDoc], o, [data EXCEPT ![p] = o])
            /\ data' = [data EXCEPT ![p] = o]
            /\ pc' = [pc EXCEPT ![p] = "writing"]
            /\ phase' = [phase EXCEPT ![p] = "load"]
            /\ pending' = [pending EXCEPT ![p] = Stringify(EmptyDoc)]
            /\ UNCHANGED <<resp, saves, got>>
       ELSE /\ dataCache' = o
            /\ AfterLoad(p, o, [heap EXCEPT ![o] = ParseAndBackfill(text)], o)
    /\ loaded' = [loaded EXCEPT ![p] = text]
    /\ UNCHANGED <<file, req, nreq, seq, before, opens, ioFailed, saveFailed, repeat,
                   lastSet, lastSaved, nfail>>
    /\ UNCHANGED syncVars

\* The continuation of `await fs.readFile` with the text the read yielded:
\* parse and backfill, or the default document and its save when the file is
\* absent, then the handler.
ReadSettle(p, text) ==
    /\ pc[p] = "reading"
    /\ LET o == FreshObj IN
       IF text.kind = "absent"
       THEN /\ dataCache' = o
            /\ heap' = Collect([heap EXCEPT ![o] = EmptyDoc], o, [data EXCEPT ![p] = o])
            /\ data' = [data EXCEPT ![p] = o]
            /\ pc' = [pc EXCEPT ![p] = "writing"]
            /\ phase' = [phase EXCEPT ![p] = "load"]
            /\ pending' = [pending EXCEPT ![p] = Stringify(EmptyDoc)]
            /\ UNCHANGED <<resp, saves, got>>
       ELSE /\ dataCache' = o
            /\ AfterLoad(p, o, [heap EXCEPT ![o] = ParseAndBackfill(text)], o)
    /\ loaded' = [loaded EXCEPT ![p] = text]
    /\ UNCHANGED <<file, req, nreq, seq, before, opens, ioFailed, saveFailed, repeat,
                   lastSet, lastSaved, nfail>>
    /\ UNCHANGED syncVars

(***************************************************************************)
(* fs.readFile completes.  An absent file makes loadData create the        *)
(* default document and save it; any other text is parsed, an unparsable   *)
(* one giving the default document.                                        *)
(***************************************************************************)
ReadDone(p) == ReadSettle(p, file)

\* A variant in which loadData passes the read error on to the handler,
\* which answers 500.
ReadFailRaises(p) ==
    /\ pc[p] = "reading"
    /\ nfail < MaxFail
    /\ nfail' = nfail + 1
    /\ pc' = [pc EXCEPT ![p] = "done"]
    /\ resp' = [resp EXCEPT ![p] = Message(500, "Error loading data.")]
    /\ ioFailed' = [ioFailed EXCEPT ![p] = TRUE]
    /\ loaded' = [loaded EXCEPT ![p] = Unreadable]
    /\ UNCHANGED <<file, dataCache, heap, req, data, phase, pending, nreq, seq, before,
                   saves, opens, saveFailed, repeat, got, lastSet, lastSaved>>
    /\ UNCHANGED syncVars

\* fs.readFile fails with an error other than ENOENT.
ReadFail(p) ==
    /\ pc[p] = "reading"
    /\ nfail < MaxFail
    /\ nfail' = nfail + 1
    /\ LET o == FreshObj IN
       /\ dataCache' = o
       /\ AfterLoad(p, o, [heap EXCEPT ![o] = EmptyDoc], o)
    /\ ioFailed' = [ioFailed EXCEPT ![p] = TRUE]
    /\ loaded' = [loaded EXCEPT ![p] = Unreadable]
    /\ UNCHANGED <<file, req, nreq, seq, before, opens, saveFailed, repeat, lastSet, lastSaved>>
    /\ UNCHANGED syncVars

\* A variant with a version check: a save is refused with 409 when the file
\* is no longer the text the request loaded.
WriteOpenChecked(p) ==
    /\ pc[p] = "writing"
    /\ IF phase[p] = "handler" /\ file # loaded[p]
       THEN /\ pc' = [pc EXCEPT ![p] = "done"]
            /\ resp' = [resp EXCEPT ![p] = Message(409, "conflict")]
            /\ data' = [data EXCEPT ![p] = NoObj]
            /\ heap' = Collect(heap, dataCache, [data EXCEPT ![p] = NoObj])
            /\ UNCHANGED <<file, opens>>
       ELSE /\ pc' = [pc EXCEPT ![p] = "flushing"]
            /\ file' = EmptyFile
            /\ opens' = [opens EXCEPT ![p] = @ + 1]
            /\ UNCHANGED <<resp, data, heap>>
    /\ UNCHANGED <<dataCache, req, phase, pending, nreq, seq, before, saves, ioFailed,
                   saveFailed, repeat, loaded, got, lastSet, lastSaved, nfail>>
    /\ UNCHANGED syncVars

\* A variant in which the handler does not await saveData: it answers as
\* soon as the write has begun.
WriteOpenAnswers(p) ==
    /\ pc[p] = "writing"
    /\ pc' = [pc EXCEPT ![p] = "flushing"]
    /\ file' = EmptyFile
    /\ opens' = [opens EXCEPT ![p] = @ + 1]
    /\ resp' = [resp EXCEPT ![p] = IF phase[p] = "handler" THEN Saved(req[p]) ELSE @]
    /\ UNCHANGED <<dataCache, heap, req, data, phase, pending, nreq, seq,
                   before, saves, ioFailed, saveFailed, repeat, loaded, got, lastSet,
                   lastSaved, nfail>>
    /\ UNCHANGED syncVars

(***************************************************************************)
(* fs.writeFile opens the file, which creates or empties it, then writes   *)
(* the text.                                                               *)
(***************************************************************************)
WriteOpen(p) ==
    /\ pc[p] = "writing"
    /\ pc' = [pc EXCEPT ![p] = "flushing"]
    /\ file' = EmptyFile
    /\ opens' = [opens EXCEPT ![p] = @ + 1]
    /\ UNCHANGED <<dataCache, heap, req, data, phase, pending, resp, nreq, seq,
                   before, saves, ioFailed, saveFailed, repeat, loaded, got, lastSet, lastSaved,
                   nfail>>
    /\ UNCHANGED syncVars

\* The texts the file may hold once request p has written its text: its own,
\* or, over a text another request wrote since p opened the file, a mix of
\* the two that does not parse.
WrittenTexts(p) ==
    IF file.kind = "empty" \/ file = pending[p]
    THEN {pending[p]}
    ELSE {pending[p], UnparsableFile}

\* A variant in which writeFile reports success and the text has not reached
\* the file.
WriteDoneLost(p) ==
    /\ pc[p] = "flushing"
    /\ file' = file
    /\ dataCache' = data[p]
    /\ IF phase[p] = "load"
       THEN AfterLoad(p, data[p], heap, data[p])
       ELSE /\ pc' = [pc EXCEPT ![p] = "done"]
            /\ resp' = [resp EXCEPT ![p] = Saved(req[p])]
            /\ data' = [data EXCEPT ![p] = NoObj]
            /\ heap' = Collect(heap, data[p], [data EXCEPT ![p] = NoObj])
            /\ UNCHANGED <<phase, pending, saves, got>>
    /\ lastSaved' = [doc |-> heap[data[p]], seq |-> seq[p]]
    /\ lastSet' = IF phase[p] = "handler" /\ req[p].op = "setAttendance"
                  THEN LET subject == DecodeURIComponent(req[p].subject) IN
                       StoreBucket(lastSet, subject, req[p].date,
                                   pending[p].attendance[subject][req[p].date])
                  ELSE lastSet
    /\ UNCHANGED <<req, nreq, seq, before, opens, ioFailed, saveFailed, repeat, loaded,
                   nfail>>
    /\ UNCHANGED syncVars

\* fs.writeFile completes: saveData sets dataCache = data and returns.
WriteDone(p) ==
    /\ pc[p] = "flushing"
    /\ file' \in WrittenTexts(p)
    /\ dataCache' = data[p]
    /\ IF phase[p] = "load"
       THEN AfterLoad(p, data[p], heap, data[p])
       ELSE /\ pc' = [pc EXCEPT ![p] = "done"]
            /\ resp' = [resp EXCEPT ![p] = Saved(req[p])]
            /\ data' = [data EXCEPT ![p] = NoObj]
            /\ heap' = Collect(heap, data[p], [data EXCEPT ![p] = NoObj])
            /\ UNCHANGED <<phase, pending, saves, got>>
    /\ lastSaved' = [doc |-> heap[data[p]], seq |-> seq[p]]
    /\ lastSet' = IF phase[p] = "handler" /\ req[p].op = "setAttendance"
                  THEN LET subject == DecodeURIComponent(req[p].subject) IN
                       StoreBucket(lastSet, subject, req[p].date,
                                   pending[p].attendance[subject][req[p].date])
                  ELSE lastSet
    /\ UNCHANGED <<req, nreq, seq, before, opens, ioFailed, saveFailed, repeat, loaded,
                   nfail>>
    /\ UNCHANGED syncVars

\* A variant in which the failure of loadData's save of the default
\* document fails the request as well.
WriteFailRaises(p) ==
    /\ pc[p] \in {"writing", "flushing"}
    /\ nfail < MaxFail
    /\ nfail' = nfail + 1
    /\ ioFailed' = [ioFailed EXCEPT ![p] = TRUE]
    /\ pc' = [pc EXCEPT ![p] = "done"]
    /\ resp' = [resp EXCEPT ![p] =
                  Message(500, "Failed to save data to the server file.")]
    /\ data' = [data EXCEPT ![p] = NoObj]
    /\ heap' = Collect(heap, dataCache, [data EXCEPT ![p] = NoObj])
    /\ saveFailed' = [saveFailed EXCEPT ![p] = (phase[p] = "handler")]
    /\ UNCHANGED <<file, dataCache, req, phase, pending, nreq, seq, before, saves, opens,
                   repeat, loaded, got, lastSet, lastSaved>>
    /\ UNCHANGED syncVars

\* fs.writeFile fails, before or after it emptied the file.  loadData logs
\* the failure and returns dataCache; a handler answers 500.
WriteFail(p) ==
    /\ pc[p] \in {"writing", "flushing"}
    /\ nfail < MaxFail
    /\ nfail' = nfail + 1
    /\ ioFailed' = [ioFailed EXCEPT ![p] = TRUE]
    /\ IF phase[p] = "load"
       THEN AfterLoad(p, dataCache, heap, dataCache)
       ELSE /\ pc' = [pc EXCEPT ![p] = "done"]
            /\ resp' = [resp EXCEPT ![p] =
                          Message(500, "Failed to save data to the server file.")]
            /\ data' = [data EXCEPT ![p] = NoObj]
            /\ heap' = Collect(heap, dataCache, [data EXCEPT ![p] = NoObj])
            /\ UNCHANGED <<phase, pending, saves, got>>
    /\ saveFailed' = [saveFailed EXCEPT ![p] = (phase[p] = "handler")]
    /\ UNCHANGED <<file, dataCache, req, nreq, seq, before, opens, repeat, loaded, lastSet, lastSaved>>
    /\ UNCHANGED syncVars

Next ==
    \E p \in Procs :
        \/ \E r \in OverlappingRequests : Receive(p, r, MaxReq)
        \/ ReadDone(p)
        \/ ReadFail(p)
        \/ WriteOpen(p)
        \/ WriteDone(p)
        \/ WriteFail(p)

Spec == Init /\ [][Next]_allVars

\* Requests served one at a time: a request arrives only when none is in
\* flight.
NextSeq ==
    \E p \in Procs :
        \/ \E r \in Requests : Quiet /\ Receive(p, r, MaxSeqReq)
        \/ ReadDone(p)
        \/ ReadFail(p)
        \/ WriteOpen(p)
        \/ WriteDone(p)
        \/ WriteFail(p)

SpecSeq == Init /\ [][NextSeq]_allVars

(***************************************************************************)
(* loadData over every file the process may find: the file is any of the   *)
(* texts below when the process starts, and a few requests follow, one at  *)
(* a time.                                                                  *)
(***************************************************************************)
MaxLoadReq == 2
MaxIoReq == 2

OneStudent == <<[roll_no |-> "001", name |-> "Ann", course |-> "N/A"]>>
OneSubject ==
    Put(EmptyMap, "Physics",
        Put(EmptyMap, "2024-01-01",
            <<[roll_no |-> "001", status |-> "present", name |-> "Ann"]>>))

LoadFiles ==
    {AbsentFile, UnparsableFile, EmptyFile, NullFile}
    \cup {FileText("object", f,
                   IF "students" \in f THEN OneStudent ELSE << >>,
                   IF "attendance" \in f THEN OneSubject ELSE EmptyMap) :
            f \in SUBSET {"students", "attendance"}}

LoadRequests ==
    ReadRequests \cup {Request("addStudent", "002", "Bob", "BSc", "", "", FALSE, << >>)}

InitLoad ==
    /\ file \in LoadFiles
    /\ dataCache = NoObj
    /\ heap = [o \in ObjIds |-> EmptyDoc]
    /\ pc = [p \in Procs |-> IF p = 1 THEN "reading" ELSE "idle"]
    /\ req = [p \in Procs |-> IF p = 1 THEN StartupRequest ELSE NoRequest]
    /\ data = [p \in Procs |-> NoObj]
    /\ phase = [p \in Procs |-> "handler"]
    /\ pending = [p \in Procs |-> EmptyFile]
    /\ resp = [p \in Procs |-> NoResponse]
    /\ nreq = 0
    /\ seq = [p \in Procs |-> 0]
    /\ before = [p \in Procs |-> file]
    /\ saves = [p \in Procs |-> 0]
    /\ opens = [p \in Procs |-> 0]
    /\ ioFailed = [p \in Procs |-> FALSE]
    /\ saveFailed = [p \in Procs |-> FALSE]
    /\ repeat = [p \in Procs |-> FALSE]
    /\ loaded = [p \in Procs |-> Unread]
    /\ got = [p \in Procs |-> EmptyDoc]
    /\ lastSet = EmptyMap
    /\ lastSaved = NoSave
    /\ nfail = 0
    /\ SyncInit

NextLoad ==
    \E p \in Procs :
        \/ \E r \in LoadRequests : Quiet /\ Receive(p, r, MaxLoadReq)
        \/ ReadDone(p)
        \/ ReadFail(p)
        \/ WriteOpen(p)
        \/ WriteDone(p)
        \/ WriteFail(p)

SpecLoad == InitLoad /\ [][NextLoad]_allVars

(***************************************************************************)
(* Reads that settle late.  fs.readFile yields the text the file held at   *)
(* some moment between the call and its continuation: the text is taken    *)
(* in one step and loadData goes on with it in a later one, and requests   *)
(* of other connections may write and be answered in between.              *)
(***************************************************************************)
\* fs.readFile takes the text of the file
ReadData(p) ==
    /\ pc[p] = "reading"
    /\ loaded[p] = Unread
    /\ loaded' = [loaded EXCEPT ![p] = file]
    /\ UNCHANGED <<file, dataCache, heap, pc, req, data, phase, pending, resp, nreq,
                   seq, before, saves, opens, ioFailed, saveFailed, repeat, got,
                   lastSet, lastSaved, nfail>>
    /\ UNCHANGED syncVars

\* loadData goes on with the text taken
ReadLate(p) ==
    /\ loaded[p] # Unread
    /\ ReadSettle(p, loaded[p])

NextIo ==
    \E p \in Procs :
        \/ \E r \in OverlappingRequests : Receive(p, r, MaxIoReq)
        \/ ReadData(p)
        \/ ReadLate(p)
        \/ ReadFail(p)
        \/ WriteOpen(p)
        \/ WriteDone(p)
        \/ WriteFail(p)

SpecIo == Init /\ [][NextIo]_allVars

(***************************************************************************)
(* Requests answered in the end.  Every read and every write of the file   *)
(* completes or fails, which is the fairness below.  The handlers of the   *)
(* three routes with a :subject parameter decode the parameter in their    *)
(* first statement, before the try block: when decodeURIComponent throws,  *)
(* the promise of the async handler rejects, nothing of the handler runs   *)
(* and nothing sends a response.                                           *)
(***************************************************************************)
MaxLiveReq == 2

\* The :subject parameters decodeURIComponent throws a URIError on: a "%"
\* that two hexadecimal digits of a well-formed sequence do not follow.
DecodeThrows(s) == s = "%E0"

DecodingOps == {"getAttendance", "print", "setAttendance"}

UndecodableRequests ==
    {SetAttendance("%E0", "2024-01-01", <<Item("001", "present")>>),
     Request("getAttendance", "", "", "", "%E0", "2024-01-01", FALSE, << >>)}

\* A request whose subject does not decode arrives: the handler throws in its
\* first statement.
ReceiveUndecodable(p, r, max) ==
    /\ r.op \in DecodingOps
    /\ DecodeThrows(r.subject)
    /\ pc[p] \in {"idle", "done"}
    /\ \A q \in Procs : q < p => InFlight(q)
    /\ nreq < max
    /\ nreq' = nreq + 1
    /\ seq' = [seq EXCEPT ![p] = nreq + 1]
    /\ req' = [req EXCEPT ![p] = r]
    /\ before' = [before EXCEPT ![p] = file]
    /\ saves' = [saves EXCEPT ![p] = 0]
    /\ opens' = [opens EXCEPT ![p] = 0]
    /\ ioFailed' = [ioFailed EXCEPT ![p] = FALSE]
    /\ saveFailed' = [saveFailed EXCEPT ![p] = FALSE]
    /\ repeat' = [repeat EXCEPT ![p] = FALSE]
    /\ loaded' = [loaded EXCEPT ![p] = Unread]
    /\ got' = [got EXCEPT ![p] = EmptyDoc]
    /\ pending' = [pending EXCEPT ![p] = EmptyFile]
    /\ pc' = [pc EXCEPT ![p] = "unanswered"]
    /\ resp' = [resp EXCEPT ![p] = NoResponse]
    /\ UNCHANGED <<file, dataCache, heap, data, phase, lastSet, lastSaved, nfail>>
    /\ UNCHANGED syncVars

NextLive ==
    \E p \in Procs :
        \/ \E r \in OverlappingRequests : Receive(p, r, MaxLiveReq)
        \/ \E r \in UndecodableRequests : ReceiveUndecodable(p, r, MaxLiveReq)
        \/ ReadDone(p)
        \/ ReadFail(p)
        \/ WriteOpen(p)
        \/ WriteDone(p)
        \/ WriteFail(p)

\* every readFile and every writeFile in flight settles
Settles ==
    \A p \in Procs :
        /\ WF_allVars(ReadDone(p) \/ ReadFail(p))
        /\ WF_allVars(WriteOpen(p) \/ WriteDone(p) \/ WriteFail(p))

SpecLive == Init /\ [][NextLive]_allVars /\ Settles

(***************************************************************************)
(* The synchronous variant of the server (src/unnamed/part_000): the       *)
(* roster and the attendance lists are globals, every handler runs to its  *)
(* response in one step, and the statistics are computed from the globals  *)
(* on every request.                                                       *)
(***************************************************************************)
MaxSaveFail == 1

SyncRolls == {"001", "002", "003", "004"}
SyncDates == {"2024-01-01", "2024-01-02"}

\* The name each roll number is registered under; two students share a name.
SyncName(roll_no) ==
    CASE roll_no = "001" -> "Dan"
      [] roll_no = "002" -> "Cy"
      [] OTHER -> "Ann"

SyncEntry(roll_no, status) == [roll_no |-> roll_no, status |-> status]

\* The bodies posted to /api/attendance/:date.
SyncLists ==
    { << >>,
      <<SyncEntry("001", "present"), SyncEntry("002", "present"),
        SyncEntry("003", "absent"), SyncEntry("004", "absent")>>,
      <<SyncEntry("001", "present"), SyncEntry("002", "absent"),
        SyncEntry("003", "present"), SyncEntry("004", "absent")>>,
      <<SyncEntry("001", "present"), SyncEntry(UnknownRoll, "present"),
        SyncEntry("002", "late")>>,
      <<SyncEntry("001", "present"), SyncEntry("002", "absent")>> }
SyncBodies ==
    {[isArray |-> TRUE, list |-> l] : l \in SyncLists}
        \cup {[isArray |-> TRUE, list |-> <<SyncEntry("", "present")>>],
              [isArray |-> TRUE, list |-> <<SyncEntry("001", "")>>],
              [isArray |-> FALSE, list |-> << >>]}

\* The letters of the names, and their place in the alphabet, which is the
\* order localeCompare gives letters whatever their case.
NameChars(s) ==
    CASE s = "Ann" -> <<"A", "n", "n">>
      [] s = "Cy" -> <<"C", "y">>
      [] s = "Dan" -> <<"D", "a", "n">>
      [] OTHER -> << >>

LetterRank(ch) ==
    CASE ch \in {"a", "A"} -> 1 [] ch \in {"c", "C"} -> 3 [] ch \in {"d", "D"} -> 4
      [] ch \in {"n", "N"} -> 14 [] ch \in {"y", "Y"} -> 25 [] OTHER -> 0

RECURSIVE CompareLetters(_, _)
CompareLetters(a, b) ==
    IF a = << >> /\ b = << >> THEN 0
    ELSE IF a = << >> THEN -1
    ELSE IF b = << >> THEN 1
    ELSE IF LetterRank(Head(a)) < LetterRank(Head(b)) THEN -1
    ELSE IF LetterRank(Head(a)) > LetterRank(Head(b)) THEN 1
    ELSE CompareLetters(Tail(a), Tail(b))

\* a.name.localeCompare(b.name)
CompareNames(a, b) == CompareLetters(NameChars(a), NameChars(b))

(***************************************************************************)
(* Numbers.  A percentage is kept as the fraction n/d in lowest terms, so  *)
(* that two percentages are the same number exactly when they are the same *)
(* fraction; toFixed(1) gives the number of tenths nearest to it.          *)
(***************************************************************************)
RECURSIVE Gcd(_, _)
Gcd(a, b) == IF b = 0 THEN a ELSE Gcd(b, a % b)

Frac(n, d) ==
    LET g == Gcd(IF n < 0 THEN -n ELSE n, d)
    IN  [n |-> n \div g, d |-> d \div g]

\* (count / of) * 100 when of > 0, else 0
Percent(count, of) == IF of > 0 THEN Frac(100 * count, of) ELSE Frac(0, 1)

FracLess(x, y) == x.n * y.d < y.n * x.d

ToFixed1(x) == (20 * x.n + x.d) \div (2 * x.d)

(***************************************************************************)
(* calculateMetrics.  studentMetrics maps each roll number of the roster   *)
(* to its counters; its keys are enumerated in the order of the roster,    *)
(* the roll numbers being distinct and not written as plain integers.      *)
(***************************************************************************)
RosterRolls(students) == {students[i].roll_no : i \in 1 .. Len(students)}

NewStudentMetrics(students) ==
    [r \in RosterRolls(students) |->
        LET last == CHOOSE i \in 1 .. Len(students) :
                        /\ students[i].roll_no = r
                        /\ \A j \in 1 .. Len(students) :
                              students[j].roll_no = r => j <= i
        IN  [name |-> students[last].name, present |-> 0, absent |-> 0, total |-> 0]]

\* A variant that counts every entry of the day, whoever it names.
RECURSIVE CountListAll(_, _)
CountListAll(list, acc) ==
    IF list = << >> THEN acc
    ELSE LET entry == Head(list)
         IN  CountListAll(Tail(list),
                [acc EXCEPT
                    !.presentCount =
                        IF entry.status = "present" THEN @ + 1 ELSE @,
                    !.validEntriesCount = @ + 1])

\* A variant that takes every status other than present for absent.
RECURSIVE CountListElseAbsent(_, _)
CountListElseAbsent(list, acc) ==
    IF list = << >> THEN acc
    ELSE LET entry == Head(list)
             rollNo == entry.roll_no
             m == acc.studentMetrics
         IN  IF rollNo \in DOMAIN m
             THEN CountListElseAbsent(Tail(list),
                    [studentMetrics |->
                        [m EXCEPT
                            ![rollNo].total = @ + 1,
                            ![rollNo].present =
                                IF entry.status = "present" THEN @ + 1 ELSE @,
                            ![rollNo].absent =
                                IF entry.status # "present" THEN @ + 1 ELSE @],
                     presentCount |->
                        IF entry.status = "present" THEN acc.presentCount + 1
                        ELSE acc.presentCount,
                     validEntriesCount |-> acc.validEntriesCount + 1])
             ELSE CountListElseAbsent(Tail(list), acc)

\* One pass of attendanceList.forEach over the entries that remain; an entry
\* counts when studentMetrics has its roll number.
RECURSIVE CountList(_, _)
CountList(list, acc) ==
    IF list = << >> THEN acc
    ELSE LET entry == Head(list)
             rollNo == entry.roll_no
             m == acc.studentMetrics
         IN  IF rollNo \in DOMAIN m
             THEN CountList(Tail(list),
                    [studentMetrics |->
                        [m EXCEPT
                            ![rollNo].total = @ + 1,
                            ![rollNo].present =
                                IF entry.status = "present" THEN @ + 1 ELSE @,
                            ![rollNo].absent =
                                IF entry.status = "absent" THEN @ + 1 ELSE @],
                     presentCount |->
                        IF entry.status = "present" THEN acc.presentCount + 1
                        ELSE acc.presentCount,
                     validEntriesCount |-> acc.validEntriesCount + 1])
             ELSE CountList(Tail(list), acc)

\* dates.sort()
RECURSIVE SortDates(_)
SortDates(dates) ==
    IF dates = {} THEN << >>
    ELSE LET first == CHOOSE x \in dates :
                        \A y \in dates : CompareChars(Chars(x), Chars(y)) <= 0
         IN  <<first>> \o SortDates(dates \ {first})

\* A variant that adds every entry of the day to the overall records.
RECURSIVE CountDatesAllRecords(_, _, _)
CountDatesAllRecords(dates, byDate, acc) ==
    IF dates = << >> THEN acc
    ELSE LET date == Head(dates)
             day == CountList(byDate[date],
                        [studentMetrics |-> acc.studentMetrics,
                         presentCount |-> 0, validEntriesCount |-> 0])
         IN  CountDatesAllRecords(Tail(dates), byDate,
                [studentMetrics |-> day.studentMetrics,
                 dailyRates |->
                    Put(acc.dailyRates, date,
                        Percent(day.presentCount, day.validEntriesCount)),
                 totalPresentOverall |-> acc.totalPresentOverall + day.presentCount,
                 totalRecordsOverall |->
                    acc.totalRecordsOverall + Len(byDate[date])])

\* allDatesSorted.forEach over the dates that remain.
RECURSIVE CountDates(_, _, _)
CountDates(dates, byDate, acc) ==
    IF dates = << >> THEN acc
    ELSE LET date == Head(dates)
             day == CountList(byDate[date],
                        [studentMetrics |-> acc.studentMetrics,
                         presentCount |-> 0, validEntriesCount |-> 0])
         IN  CountDates(Tail(dates), byDate,
                [studentMetrics |-> day.studentMetrics,
                 dailyRates |->
                    Put(acc.dailyRates, date,
                        Percent(day.presentCount, day.validEntriesCount)),
                 totalPresentOverall |-> acc.totalPresentOverall + day.presentCount,
                 totalRecordsOverall |->
                    acc.totalRecordsOverall + day.validEntriesCount])

\* Math.max(...rates) and Math.min(...rates) of a list that is not empty
RECURSIVE MaxRate(_)
MaxRate(rates) ==
    IF Len(rates) = 1 THEN rates[1]
    ELSE LET rest == MaxRate(Tail(rates))
         IN  IF FracLess(rest, Head(rates)) THEN Head(rates) ELSE rest

RECURSIVE MinRate(_)
MinRate(rates) ==
    IF Len(rates) = 1 THEN rates[1]
    ELSE LET rest == MinRate(Tail(rates))
         IN  IF FracLess(Head(rates), rest) THEN Head(rates) ELSE rest

\* Object.keys(dailyRates).find(d => dailyRates[d] === val) || "-"
RECURSIVE FindDate(_, _, _)
FindDate(dates, dailyRates, val) ==
    IF dates = << >> THEN "-"
    ELSE IF dailyRates[Head(dates)] = val THEN Head(dates)
    ELSE FindDate(Tail(dates), dailyRates, val)

calculateMetrics(students, byDate) ==
    LET allDatesSorted == SortDates(DOMAIN byDate)
        counted == CountDates(allDatesSorted, byDate,
                      [studentMetrics |-> NewStudentMetrics(students),
                       dailyRates |-> [d \in {} |-> Frac(0, 1)],
                       totalPresentOverall |-> 0,
                       totalRecordsOverall |-> 0])
        dailyRates == counted.dailyRates
        some == Len(allDatesSorted) > 0
        rates == [i \in 1 .. Len(allDatesSorted) |-> dailyRates[allDatesSorted[i]]]
        bestDayVal == IF some THEN MaxRate(rates) ELSE Frac(0, 1)
        worstDayVal == IF some THEN MinRate(rates) ELSE Frac(100, 1)
    IN  [totalClasses |-> Len(allDatesSorted),
         avgAttendance |->
            Percent(counted.totalPresentOverall, counted.totalRecordsOverall),
         bestDay |->
            [date |-> IF some THEN FindDate(allDatesSorted, dailyRates, bestDayVal)
                      ELSE "-",
             value |-> bestDayVal],
         worstDay |->
            [date |-> IF some THEN FindDate(allDatesSorted, dailyRates, worstDayVal)
                      ELSE "-",
             value |-> worstDayVal],
         studentMetrics |-> counted.studentMetrics,
         dailyRates |-> dailyRates]

(***************************************************************************)
(* GET /api/rankings.                                                      *)
(***************************************************************************)
\* Object.entries(studentMetrics).map(...), in the order of the keys
StudentSummary(students, studentMetrics) ==
    [i \in 1 .. Len(students) |->
        LET metrics == studentMetrics[students[i].roll_no]
        IN  [roll_no |-> students[i].roll_no,
             name |-> metrics.name,
             attendance_percent |-> Percent(metrics.present, metrics.total)]]

\* The comparator of studentSummary.sort: its sign
RankCompare(a, b) ==
    IF b.attendance_percent # a.attendance_percent
    THEN IF FracLess(a.attendance_percent, b.attendance_percent) THEN 1 ELSE -1
    ELSE CompareNames(a.name, b.name)

\* Array.prototype.sort is stable: an element goes after those that do not
\* compare greater than it.
RECURSIVE InsertRanked(_, _)
InsertRanked(sorted, x) ==
    IF sorted = << >> THEN <<x>>
    ELSE IF RankCompare(Head(sorted), x) <= 0
         THEN <<Head(sorted)>> \o InsertRanked(Tail(sorted), x)
         ELSE <<x>> \o sorted

RECURSIVE SortRanked(_)
SortRanked(list) ==
    IF list = << >> THEN << >>
    ELSE InsertRanked(SortRanked(SubSeq(list, 1, Len(list) - 1)), list[Len(list)])

\* A variant of the loop that gives the next percentage the next rank.
RECURSIVE RankLoopDense(_, _, _, _)
RankLoopDense(list, currentRank, lastPercent, studentsAtRank) ==
    IF list = << >> THEN << >>
    ELSE LET summary == Head(list)
             percent == summary.attendance_percent
             rank == IF percent # lastPercent THEN currentRank + 1 ELSE currentRank
         IN  <<[rank |-> rank, roll_no |-> summary.roll_no, name |-> summary.name,
                attendance_percent |-> ToFixed1(percent)]>>
                \o RankLoopDense(Tail(list), rank, percent, 0)

\* The loop that adds the ranks, over the summaries that remain.
RECURSIVE RankLoop(_, _, _, _)
RankLoop(list, currentRank, lastPercent, studentsAtRank) ==
    IF list = << >> THEN << >>
    ELSE LET summary == Head(list)
             percent == summary.attendance_percent
             changed == percent # lastPercent
             rank == IF changed THEN currentRank + (studentsAtRank + 1)
                     ELSE currentRank
             atRank == IF changed THEN 0 ELSE studentsAtRank + 1
         IN  <<[rank |-> rank, roll_no |-> summary.roll_no, name |-> summary.name,
                attendance_percent |-> ToFixed1(percent)]>>
                \o RankLoop(Tail(list), rank, percent, atRank)

Rankings(students, byDate) ==
    LET studentMetrics == calculateMetrics(students, byDate).studentMetrics
    IN  RankLoop(SortRanked(StudentSummary(students, studentMetrics)),
                 0, Frac(-1, 1), 0)

(***************************************************************************)
(* The handlers of the synchronous variant.  writeFileSync either writes   *)
(* the text, or fails; when it fails the file is as it was, or was emptied *)
(* and the text is cut short.  Every other file operation succeeds.        *)
(***************************************************************************)
SaveOutcomes ==
    IF nsave < MaxSaveFail THEN {"written", "untouched", "cut"} ELSE {"written"}

WriteFileSync(old, text, outcome) ==
    CASE outcome = "written" -> text
      [] outcome = "untouched" -> old
      [] OTHER -> CutText

\* JSON.parse of the text of students.json, [] when it throws
ParseStudents(text) == IF text.kind = "array" THEN text.students ELSE << >>

\* JSON.parse of the text of attendance.json, {} when it throws
ParseAttendance(text) ==
    IF text.kind = "object" THEN text.attendance ELSE [d \in {} |-> << >>]

SyncReply(kind, status, message) ==
    [kind |-> kind, status |-> status, message |-> message]

\* delete m[k]
DeleteKey(m, k) == [x \in (DOMAIN m) \ {k} |-> m[x]]

\* POST /api/students
SyncAddStudent(roll_no, name) ==
    /\ IF roll_no = "" \/ name = ""
       THEN /\ reply' = SyncReply("addStudent", 400, "required")
            /\ UNCHANGED <<studentList, studentsFile, nsave>>
       ELSE IF \E i \in 1 .. Len(studentList) : studentList[i].roll_no = roll_no
       THEN /\ reply' = SyncReply("addStudent", 400, "exists")
            /\ UNCHANGED <<studentList, studentsFile, nsave>>
       ELSE \E outcome \in SaveOutcomes :
              LET pushed == Append(studentList, [roll_no |-> roll_no, name |-> name])
              IN  /\ studentsFile' =
                        WriteFileSync(studentsFile, StudentsText(pushed), outcome)
                  /\ IF outcome = "written"
                     THEN /\ studentList' = pushed
                          /\ reply' = SyncReply("addStudent", 201, "")
                          /\ UNCHANGED nsave
                     ELSE /\ studentList' = SubSeq(pushed, 1, Len(pushed) - 1)
                          /\ reply' = SyncReply("addStudent", 500, "failed")
                          /\ nsave' = nsave + 1
    /\ UNCHANGED <<attendanceData, attendanceFile>>
    /\ UNCHANGED vars

\* DELETE /api/students/:roll_no
SyncRemoveStudent(rollNoToDelete) ==
    LET filtered == SelectSeq(studentList, LAMBDA s : s.roll_no # rollNoToDelete)
    IN  /\ IF Len(filtered) < Len(studentList)
           THEN \E outcome \in SaveOutcomes :
                  /\ studentsFile' =
                        WriteFileSync(studentsFile, StudentsText(filtered), outcome)
                  /\ IF outcome = "written"
                     THEN /\ studentList' = filtered
                          /\ reply' = SyncReply("removeStudent", 200, "deleted")
                          /\ UNCHANGED <<attendanceData, nsave>>
                     ELSE /\ studentList' = ParseStudents(studentsFile')
                          /\ attendanceData' = ParseAttendance(attendanceFile)
                          /\ reply' = SyncReply("removeStudent", 500, "failed")
                          /\ nsave' = nsave + 1
           ELSE /\ studentList' = filtered
                /\ reply' = SyncReply("removeStudent", 404, "not found")
                /\ UNCHANGED <<studentsFile, attendanceData, nsave>>
        /\ UNCHANGED attendanceFile
        /\ UNCHANGED vars

\* POST /api/attendance/:date
SyncSetAttendance(date, body) ==
    /\ IF ~body.isArray
       THEN /\ reply' = SyncReply("setAttendance", 400, "expected an array")
            /\ UNCHANGED <<attendanceData, attendanceFile, nsave>>
       ELSE IF \E i \in 1 .. Len(body.list) :
                  body.list[i].roll_no = "" \/ body.list[i].status = ""
       THEN /\ reply' = SyncReply("setAttendance", 400, "roll_no and status")
            /\ UNCHANGED <<attendanceData, attendanceFile, nsave>>
       ELSE \E outcome \in SaveOutcomes :
              LET stored == Put(attendanceData, date, body.list)
              IN  /\ attendanceFile' =
                        WriteFileSync(attendanceFile, AttendanceText(stored), outcome)
                  /\ IF outcome = "written"
                     THEN /\ attendanceData' = stored
                          /\ reply' = SyncReply("setAttendance", 200, "saved")
                          /\ UNCHANGED nsave
                     ELSE /\ attendanceData' = DeleteKey(stored, date)
                          /\ reply' = SyncReply("setAttendance", 500, "failed")
                          /\ nsave' = nsave + 1
    /\ UNCHANGED <<studentList, studentsFile>>
    /\ UNCHANGED vars

\* "-", or `${date} (${value.toFixed(1)}%)`
DayText(day) ==
    IF day.date # "-" THEN [date |-> day.date, tenths |-> ToFixed1(day.value)]
    ELSE [date |-> "-"]

\* GET /api/metrics
SyncGetMetrics ==
    LET metrics == calculateMetrics(studentList, attendanceData)
    IN  /\ reply' = [kind |-> "metrics", status |-> 200,
                     totalClasses |-> metrics.totalClasses,
                     avgAttendance |-> ToFixed1(metrics.avgAttendance),
                     bestDay |-> DayText(metrics.bestDay),
                     worstDay |-> DayText(metrics.worstDay),
                     dailyRates |-> metrics.dailyRates]
        /\ UNCHANGED <<studentList, attendanceData, studentsFile, attendanceFile, nsave>>
        /\ UNCHANGED vars

\* GET /api/metrics/students
SyncGetStudentMetrics ==
    LET studentMetrics == calculateMetrics(studentList, attendanceData).studentMetrics
    IN  /\ reply' = [kind |-> "studentMetrics", status |-> 200,
                     list |->
                        [i \in 1 .. Len(studentList) |->
                            LET metrics == studentMetrics[studentList[i].roll_no]
                            IN  [roll_no |-> studentList[i].roll_no,
                                 name |-> metrics.name,
                                 present |-> metrics.present,
                                 absent |-> metrics.absent,
                                 attendance_percent |->
                                    ToFixed1(Percent(metrics.present, metrics.total))]]]
        /\ UNCHANGED <<studentList, attendanceData, studentsFile, attendanceFile, nsave>>
        /\ UNCHANGED vars

\* GET /api/rankings
SyncGetRankings ==
    /\ reply' = [kind |-> "rankings", status |-> 200,
                 list |-> Rankings(studentList, attendanceData)]
    /\ UNCHANGED <<studentList, attendanceData, studentsFile, attendanceFile, nsave>>
    /\ UNCHANGED vars

\* The variant starts beside a server that has not started.
InitSync ==
    /\ file = AbsentFile
    /\ Init

NextSync ==
    \/ \E roll_no \in SyncRolls \cup {""}, named \in BOOLEAN :
          SyncAddStudent(roll_no, IF named THEN SyncName(roll_no) ELSE "")
    \/ \E roll_no \in SyncRolls : SyncRemoveStudent(roll_no)
    \/ \E date \in SyncDates, body \in SyncBodies : SyncSetAttendance(date, body)
    \/ SyncGetMetrics
    \/ SyncGetStudentMetrics
    \/ SyncGetRankings

SpecSync == InitSync /\ [][NextSync]_allVars

(***************************************************************************)
(* Properties.                                                             *)
(***************************************************************************)
Done(p, op) == pc[p] = "done" /\ req[p].op = op

RollNoCount(students, r) ==
    Cardinality({i \in 1 .. Len(students) : students[i].roll_no = r})

Entries(text) ==
    {text.attendance[s][d][i] :
        <<s, d, i>> \in {t \in (DOMAIN text.attendance) \X GoodDates \X (1 .. 4) :
                            /\ t[2] \in DOMAIN text.attendance[t[1]]
                            /\ t[3] <= Len(text.attendance[t[1]][t[2]])}}

\* C1: in every reachable state, also while requests overlap, the roster in
\* the file holds no two students with the same roll_no.
C1_UniqueRollNo ==
    file.kind = "object" =>
        \A i, j \in 1 .. Len(file.students) :
            file.students[i].roll_no = file.students[j].roll_no => i = j

\* Two overlapping requests added the same roll_no and both were answered 201.
C1_Witness ==
    /\ nreq = 2
    /\ \A p \in Procs : Done(p, "addStudent") /\ resp[p].status = 201
    /\ req[1].roll_no = req[2].roll_no
    /\ file.kind = "object"
    /\ Len(file.students) = 1

\* C2: addStudent with a roll_no that the roster already holds is answered
\* 400, calls saveData not once, never opens the file for writing, and leaves
\* the file, hence what GET /api/students returns next, as it was when the
\* request arrived.  (Requests one at a time; the read of the file succeeds.)
C2_DuplicateAddRejected ==
    \A p \in Procs :
        (/\ Done(p, "addStudent")
         /\ before[p].kind = "object"
         /\ RollNoCount(before[p].students, req[p].roll_no) > 0
         /\ ~ioFailed[p])
        => /\ resp[p].status = 400
           /\ saves[p] = 0
           /\ opens[p] = 0
           /\ file = before[p]
           /\ ParseAndBackfill(file).students = ParseAndBackfill(before[p]).students

C2_Witness ==
    \E p \in Procs :
        /\ Done(p, "addStudent")
        /\ before[p].kind = "object"
        /\ RollNoCount(before[p].students, req[p].roll_no) > 0
        /\ req[p].name # ""
        /\ Len(before[p].students) = 2
        /\ resp[p].status = 400

\* C3: after removeStudent(r) is answered 200 the file holds a document with
\* no student r and no entry of r in any bucket, written by the one saveData
\* call of the request; and no document in the file ever holds an entry whose
\* roll_no is not in its roster.  (Requests one at a time.)
C3_RemoveCascades ==
    /\ \A p \in Procs :
          (Done(p, "removeStudent") /\ resp[p].status = 200)
          => /\ file.kind = "object"
             /\ file = pending[p]
             /\ RollNoCount(file.students, req[p].roll_no) = 0
             /\ \A e \in Entries(file) : e.roll_no # req[p].roll_no
             /\ saves[p] = 1
             /\ opens[p] = 1
    /\ file.kind = "object" =>
          \A e \in Entries(file) : RollNoCount(file.students, e.roll_no) > 0

\* A student with entries on two dates was removed.
C3_Witness ==
    \E p \in Procs :
        /\ Done(p, "removeStudent")
        /\ resp[p].status = 200
        /\ before[p].kind = "object"
        /\ \A d \in GoodDates :
              /\ "Physics" \in DOMAIN before[p].attendance
              /\ d \in DOMAIN before[p].attendance["Physics"]
              /\ \E i \in 1 .. Len(before[p].attendance["Physics"][d]) :
                    before[p].attendance["Physics"][d][i].roll_no = req[p].roll_no

\* The subject a request names, and whether its body has the required shape.
SubjectOf(r) == IF r.subject = "Applied%20Physics" THEN "Applied Physics" ELSE r.subject

WellShaped(r) ==
    /\ r.isArray
    /\ \A i \in 1 .. Len(r.body) :
          /\ r.body[i].roll_no \notin {"", BlankRoll}
          /\ r.body[i].status \in {"present", "absent"}

HasBucket(text, subject, date) ==
    /\ text.kind = "object"
    /\ subject \in DOMAIN text.attendance
    /\ date \in DOMAIN text.attendance[subject]

\* The list a bucket is to hold for a body and a roster: the items of the
\* body whose roll_no is in the roster, in the order of the body, each with
\* the name the roster gives that roll_no.
ExpectedBucket(body, students) ==
    LET known == {i \in 1 .. Len(body) : RollNoCount(students, body[i].roll_no) > 0}
        nth(j) == CHOOSE i \in known : Cardinality({k \in known : k < i}) = j - 1
        nameOf(r) == students[CHOOSE i \in 1 .. Len(students) : students[i].roll_no = r].name
    IN [j \in 1 .. Cardinality(known) |->
          [roll_no |-> body[nth(j)].roll_no, status |-> body[nth(j)].status,
           name |-> nameOf(body[nth(j)].roll_no)]]

\* C4: setAttendance is idempotent: a setAttendance request that repeats the
\* request answered 200 just before it, and is answered 200 too, leaves the
\* file, and the list getAttendance returns for the bucket, as the first left
\* them.  (Requests one at a time; no file operation of the request fails.)
C4_SetAttendanceIdempotent ==
    \A p \in Procs :
        (Done(p, "setAttendance") /\ repeat[p] /\ resp[p].status = 200 /\ ~ioFailed[p])
        => /\ file = before[p]
           /\ Bucket(ParseAndBackfill(file), SubjectOf(req[p]), req[p].date)
                = Bucket(ParseAndBackfill(before[p]), SubjectOf(req[p]), req[p].date)

\* The repeated request stored a bucket that is not empty.
C4_Witness ==
    \E p \in Procs :
        /\ Done(p, "setAttendance")
        /\ repeat[p]
        /\ resp[p].status = 200
        /\ ~ioFailed[p]
        /\ HasBucket(file, SubjectOf(req[p]), req[p].date)
        /\ Len(file.attendance[SubjectOf(req[p])][req[p].date]) > 0
        /\ Len(file.attendance[SubjectOf(req[p])][req[p].date]) < Len(req[p].body)

\* C5: setAttendance whose items all have the required shape, some naming a
\* roll_no the roster lacks, is answered 200; the bucket it stores holds no
\* entry for a roll_no outside the roster, and every entry it holds carries
\* the name of the roster's student with that roll_no.  (Requests one at a
\* time; no file operation of the request fails.)
C5_UnknownRollNoDropped ==
    \A p \in Procs :
        (/\ Done(p, "setAttendance")
         /\ WellShaped(req[p])
         /\ req[p].date \in GoodDates
         /\ req[p].subject # ""
         /\ \E i \in 1 .. Len(req[p].body) :
               RollNoCount(ParseAndBackfill(before[p]).students, req[p].body[i].roll_no) = 0
         /\ ~ioFailed[p])
        => /\ resp[p].status = 200
           /\ HasBucket(file, SubjectOf(req[p]), req[p].date)
           /\ LET stored == file.attendance[SubjectOf(req[p])][req[p].date] IN
              \A j \in 1 .. Len(stored) :
                 \E i \in 1 .. Len(file.students) :
                    /\ file.students[i].roll_no = stored[j].roll_no
                    /\ file.students[i].name = stored[j].name

\* One item of the body was stored and one, for an unknown roll_no, was not.
C5_Witness ==
    \E p \in Procs :
        /\ Done(p, "setAttendance")
        /\ resp[p].status = 200
        /\ ~ioFailed[p]
        /\ Len(req[p].body) = 2
        /\ \E i \in 1 .. 2 : req[p].body[i].roll_no = UnknownRoll
        /\ HasBucket(file, SubjectOf(req[p]), req[p].date)
        /\ Len(file.attendance[SubjectOf(req[p])][req[p].date]) = 1

\* C6: a setAttendance(subject, date, body) answered 200 leaves the roster as
\* it was, the (subject, date) bucket holding exactly the enriched body, and
\* every other bucket of every subject as it was, adding no other key.
\* (Requests one at a time; no file operation of the request fails.)
C6_SetAttendanceReplacesBucket ==
    \A p \in Procs :
        (Done(p, "setAttendance") /\ resp[p].status = 200 /\ ~ioFailed[p])
        => LET old == ParseAndBackfill(before[p])
               subject == SubjectOf(req[p])
               date == req[p].date
               oldDates(s) == IF s \in DOMAIN old.attendance
                              THEN DOMAIN old.attendance[s] ELSE {}
           IN /\ file.kind = "object"
              /\ file.students = old.students
              /\ DOMAIN file.attendance = (DOMAIN old.attendance) \cup {subject}
              /\ \A s \in DOMAIN file.attendance :
                    /\ DOMAIN file.attendance[s]
                         = oldDates(s) \cup (IF s = subject THEN {date} ELSE {})
                    /\ \A d \in oldDates(s) :
                          (s # subject \/ d # date)
                          => file.attendance[s][d] = old.attendance[s][d]
              /\ file.attendance[subject][date] = ExpectedBucket(req[p].body, old.students)

\* A bucket whose entry is not in the new body was replaced while another
\* bucket held entries.
C6_Witness ==
    \E p \in Procs :
        /\ Done(p, "setAttendance")
        /\ resp[p].status = 200
        /\ ~ioFailed[p]
        /\ HasBucket(before[p], SubjectOf(req[p]), req[p].date)
        /\ LET was == before[p].attendance[SubjectOf(req[p])][req[p].date] IN
           /\ Len(was) > 0
           /\ \A i \in 1 .. Len(req[p].body) : req[p].body[i].status # was[1].status
        /\ Len(file.attendance[SubjectOf(req[p])][req[p].date]) > 0
        /\ \E s \in DOMAIN file.attendance : \E d \in DOMAIN file.attendance[s] :
              /\ (s # SubjectOf(req[p]) \/ d # req[p].date)
              /\ Len(file.attendance[s][d]) > 0

\* C7: setAttendance whose body is no array, or holds an item with an empty
\* roll_no or with a status other than present and absent, is answered 400
\* and stores nothing: the handler calls no saveData, never opens the file for
\* writing, and the file is as it was when the request arrived.  (Requests
\* one at a time.)
C7_InvalidBodyStoresNothing ==
    \A p \in Procs :
        (Done(p, "setAttendance") /\ ~WellShaped(req[p]))
        => /\ resp[p].status = 400
           /\ saves[p] = 0
           /\ opens[p] = 0
           /\ file = before[p]

\* A body with one valid and one invalid item was rejected while the bucket
\* held entries.
C7_Witness ==
    \E p \in Procs :
        /\ Done(p, "setAttendance")
        /\ req[p].isArray
        /\ ~WellShaped(req[p])
        /\ req[p].body[1].status = "present"
        /\ resp[p].status = 400
        /\ HasBucket(file, SubjectOf(req[p]), req[p].date)
        /\ Len(file.attendance[SubjectOf(req[p])][req[p].date]) > 0

\* C8: in every reachable state every date key of every bucket in the file
\* is of the form YYYY-MM-DD, and a GET, POST or print request for an
\* attendance bucket with the date 2024-1-1 is answered 400 without writing:
\* it calls no saveData and never opens the file for writing.
C8_DateKeysWellFormed ==
    /\ file.kind = "object" =>
          \A s \in DOMAIN file.attendance : DOMAIN file.attendance[s] \subseteq GoodDates
    /\ \A p \in Procs :
          (/\ pc[p] = "done"
           /\ req[p].op \in {"getAttendance", "setAttendance", "print"}
           /\ req[p].date = BadDate)
          => /\ resp[p].status = 400
             /\ saves[p] = 0
             /\ opens[p] = 0

\* A POST with the malformed date was rejected while the file held a bucket.
C8_Witness ==
    /\ \E p \in Procs :
          /\ Done(p, "setAttendance")
          /\ req[p].date = BadDate
          /\ resp[p].status = 400
    /\ file.kind = "object"
    /\ \E s \in DOMAIN file.attendance : DOMAIN file.attendance[s] # {}

\* C9: addStudent with a roll_no and a name, the roll_no not in the roster,
\* is answered 201 with the created record, whose course is "N/A" when the
\* request gives none; the roster GET /api/students returns next holds
\* exactly one record with that roll_no and every student it held before.
\* (Requests one at a time; no file operation of the request fails.)
C9_AddStudentSucceeds ==
    \A p \in Procs :
        (/\ Done(p, "addStudent")
         /\ req[p].roll_no # ""
         /\ req[p].name # ""
         /\ RollNoCount(ParseAndBackfill(before[p]).students, req[p].roll_no) = 0
         /\ ~ioFailed[p])
        => LET old == ParseAndBackfill(before[p]).students
               new == ParseAndBackfill(file).students
               created == [roll_no |-> req[p].roll_no, name |-> req[p].name,
                           course |-> IF req[p].course = "" THEN "N/A" ELSE req[p].course]
           IN /\ resp[p].status = 201
              /\ resp[p].students = <<created>>
              /\ RollNoCount(new, req[p].roll_no) = 1
              /\ \E i \in 1 .. Len(new) : new[i] = created
              /\ \A i \in 1 .. Len(old) : \E j \in 1 .. Len(new) : new[j] = old[i]
              /\ Len(new) = Len(old) + 1

\* A student without a course joined a roster that held a student.
C9_Witness ==
    \E p \in Procs :
        /\ Done(p, "addStudent")
        /\ resp[p].status = 201
        /\ ~ioFailed[p]
        /\ req[p].course = ""
        /\ before[p].kind = "object"
        /\ Len(before[p].students) = 1
        /\ file.kind = "object"
        /\ Len(file.students) = 2

\* The place of a roll number in ascending order.
RollOrder(r) == CASE r = "001" -> 1 [] r = "002" -> 2 [] OTHER -> 3

\* C10: in every reachable state the roster in the file is in ascending order
\* of roll_no: after every addStudent, removeStudent and setAttendance.
C10_RosterSorted ==
    file.kind = "object" =>
        \A i, j \in 1 .. Len(file.students) :
            i < j => RollOrder(file.students[i].roll_no) <= RollOrder(file.students[j].roll_no)

\* The student added last has the lower roll_no and stands first.
C10_Witness ==
    \E p \in Procs :
        /\ Done(p, "addStudent")
        /\ resp[p].status = 201
        /\ before[p].kind = "object"
        /\ Len(before[p].students) = 1
        /\ RollOrder(before[p].students[1].roll_no) > RollOrder(req[p].roll_no)
        /\ file.kind = "object"
        /\ Len(file.students) = 2
        /\ file.students[1].roll_no = req[p].roll_no

\* C11: removeStudent(r) when the roster has no student r is answered 404;
\* its handler calls no saveData, the roster and every attendance bucket a
\* load yields are as they were when the request arrived, and a file that
\* existed then is neither opened for writing nor changed.  (Requests one at
\* a time.)
C11_RemoveUnknownNotFound ==
    \A p \in Procs :
        (/\ Done(p, "removeStudent")
         /\ RollNoCount(ParseAndBackfill(before[p]).students, req[p].roll_no) = 0)
        => /\ resp[p].status = 404
           /\ saves[p] = 0
           /\ ParseAndBackfill(file) = ParseAndBackfill(before[p])
           /\ before[p].kind # "absent" => (opens[p] = 0 /\ file = before[p])

\* The roster held another student, with an entry in a bucket.
C11_Witness ==
    \E p \in Procs :
        /\ Done(p, "removeStudent")
        /\ resp[p].status = 404
        /\ before[p].kind = "object"
        /\ Len(before[p].students) > 0
        /\ Entries(before[p]) # {}
        /\ file = before[p]

\* The list the bucket holds in a file text, none when there is no bucket.
StoredList(text, subject, date) ==
    IF HasBucket(text, subject, date) THEN text.attendance[subject][date] ELSE << >>

\* The list the last setAttendance answered 200 stored for the bucket.
LastSetList(subject, date) ==
    IF subject \in DOMAIN lastSet /\ date \in DOMAIN lastSet[subject]
    THEN lastSet[subject][date] ELSE << >>

\* A list without the entries of the roll numbers in gone.
Without(list, gone) ==
    LET kept == {i \in 1 .. Len(list) : list[i].roll_no \notin gone}
        nth(j) == CHOOSE i \in kept : Cardinality({k \in kept : k < i}) = j - 1
    IN [j \in 1 .. Cardinality(kept) |-> list[nth(j)]]

\* C12: as the claim states it: getAttendance(subject, date) with a
\* well-formed date is answered 200 with the list last stored for the bucket
\* by setAttendance, the empty list when none was, and creates nothing.  (No
\* file operation has failed.)
C12_ReturnsLastSetList ==
    \A p \in Procs :
        (/\ Done(p, "getAttendance")
         /\ req[p].date \in GoodDates
         /\ req[p].subject # ""
         /\ nfail = 0)
        => /\ resp[p].status = 200
           /\ resp[p].list = LastSetList(SubjectOf(req[p]), req[p].date)
           /\ ParseAndBackfill(file) = ParseAndBackfill(before[p])

\* C12: amended: getAttendance(subject, date) with a well-formed date is
\* answered 200 with the list the bucket holds in the file, which is the list
\* last stored for it by setAttendance without the entries of students
\* removed since, and with the empty list when the subject or the date has
\* no bucket; it calls no saveData, leaves the file as it is and creates
\* neither subject nor bucket in the document in memory.  (Requests one at a
\* time; the request's read of the file does not fail.)
C12_ReturnsStoredList ==
    \A p \in Procs :
        (/\ Done(p, "getAttendance")
         /\ req[p].date \in GoodDates
         /\ req[p].subject # ""
         /\ ~ioFailed[p])
        => /\ resp[p].status = 200
           /\ resp[p].list = StoredList(before[p], SubjectOf(req[p]), req[p].date)
           /\ nfail = 0 =>
                 \E gone \in SUBSET RollNos :
                    resp[p].list
                      = Without(LastSetList(SubjectOf(req[p]), req[p].date), gone)
           /\ saves[p] = 0
           /\ ParseAndBackfill(file) = ParseAndBackfill(before[p])
           /\ before[p].kind # "absent" => (opens[p] = 0 /\ file = before[p])
           /\ dataCache # NoObj
           /\ heap[dataCache] = ParseAndBackfill(before[p])

\* A bucket's list was returned and, for a date of the same subject that has
\* no bucket, the empty list, the subject keeping its one date.
C12_Witness ==
    \E p \in Procs :
        /\ Done(p, "getAttendance")
        /\ resp[p].status = 200
        /\ ~ioFailed[p]
        /\ file.kind = "object"
        /\ SubjectOf(req[p]) \in DOMAIN file.attendance
        /\ \/ /\ req[p].date \in DOMAIN file.attendance[SubjectOf(req[p])]
              /\ Len(resp[p].list) > 0
           \/ /\ req[p].date \notin DOMAIN file.attendance[SubjectOf(req[p])]
              /\ file.attendance[SubjectOf(req[p])] # EmptyMap
              /\ resp[p].list = << >>

Mutating == {"addStudent", "removeStudent", "setAttendance"}

\* C13: when the writeFile of the saveData call of an addStudent,
\* removeStudent or setAttendance handler fails, the request is answered 500
\* and the file holds what it held when the request arrived.  (Requests one
\* at a time; the file existed when the request arrived.)
C13_WriteFailureKeepsFile ==
    \A p \in Procs :
        (/\ pc[p] = "done"
         /\ req[p].op \in Mutating
         /\ saveFailed[p]
         /\ before[p].kind # "absent")
        => /\ resp[p].status = 500
           /\ file = before[p]

\* The part of C13 about the answer: a request whose save failed is answered
\* 500, and a request answered 200 or 201 had no failing save.
C13_WriteFailureAnswered500 ==
    \A p \in Procs :
        (pc[p] = "done" /\ req[p].op \in Mutating)
        => (saveFailed[p] <=> resp[p].status = 500)

\* C14: the document is never partially written: no readFile of loadData,
\* also one that overlaps a save in progress, yields a text that holds only
\* part of a document (an empty file or a text cut short or mixed).  (No file
\* operation has failed.)
C14_NoPartialRead ==
    nfail = 0 =>
        \A p \in Procs : loaded[p].kind \notin {"empty", "unparsable"}

\* loadData has returned to the handler of request p.
Returned(p) == loaded[p] # Unread /\ ~(InFlight(p) /\ phase[p] = "load")

\* The document a text stands for: its students and attendance where it is
\* an object that has them, empty ones otherwise.
Backfilled(text) ==
    [students |-> IF text.kind = "object" /\ "students" \in text.fields
                  THEN text.students ELSE << >>,
     attendance |-> IF text.kind = "object" /\ "attendance" \in text.fields
                    THEN text.attendance ELSE [k \in {} |-> << >>]]

\* C15: loadData never raises to its caller: whether the file is absent,
\* unreadable, unparsable, empty, a falsy JSON value or an object lacking
\* students or attendance, it returns a document with both, the missing
\* parts empty and a text that is no object replaced by the empty document;
\* no request is answered 500 unless the save of its handler failed.
C15_LoadNeverRaises ==
    \A p \in Procs :
        /\ Returned(p) => got[p] = Backfilled(loaded[p])
        /\ (pc[p] = "done" /\ ~saveFailed[p]) => resp[p].status # 500

\* GET /api/students was answered from a file without the attendance key.
C15_Witness ==
    \E p \in Procs :
        /\ Done(p, "getStudents")
        /\ loaded[p].kind = "object"
        /\ loaded[p].fields = {"students"}
        /\ resp[p].status = 200
        /\ Len(resp[p].students) = 1
        /\ got[p].attendance = [k \in {} |-> << >>]

\* C16: when the file is absent, loadData creates the empty document
\* {students: [], attendance: {}} and writes it to the file, and returns it
\* to the handler, also when that write fails: the request is not answered
\* 500 for it.  (Requests one at a time.)
C16_AbsentFileDefault ==
    \A p \in Procs :
        loaded[p].kind = "absent"
        => /\ (InFlight(p) /\ phase[p] = "load")
                 => (pc[p] # "reading" /\ pending[p].kind = "object"
                     /\ pending[p].students = << >>
                     /\ pending[p].attendance = [k \in {} |-> << >>])
           /\ Returned(p)
                 => /\ got[p] = [students |-> << >>, attendance |-> [k \in {} |-> << >>]]
                    /\ ioFailed[p] \/ (opens[p] >= 1 /\ file.kind # "absent")
           /\ (pc[p] = "done" /\ ~saveFailed[p]) => resp[p].status # 500

\* The save of the default document failed, at the open or after it, and
\* loadData returned the empty document to the start-up code.
C16_Witness ==
    \E p \in Procs :
        /\ Done(p, "startup")
        /\ loaded[p].kind = "absent"
        /\ ioFailed[p]
        /\ resp[p].msg = "started"
        /\ got[p].students = << >>
        /\ file.kind \in {"absent", "empty"}

\* C17: nothing prevents a lost update.  A mutating request whose file
\* operations succeed is never refused because of what other requests wrote
\* since it loaded: it is answered 201 or 200, or 400 or 404 on what it
\* loaded itself, and the roster an addStudent answered 201 wrote is the
\* roster it loaded with its one student added, so that a student saved by
\* an overlapping request after that load is not in it.
C17_LastWriterWins ==
    \A p \in Procs :
        (/\ pc[p] = "done"
         /\ req[p].op \in Mutating
         /\ loaded[p] # Unread
         /\ ~ioFailed[p])
        => /\ resp[p].status \in {200, 201, 400, 404}
           /\ resp[p].status \in {200, 201} <=> saves[p] = 1
           /\ (req[p].op = "addStudent" /\ resp[p].status = 201)
                 => /\ pending[p].kind = "object"
                    /\ Len(pending[p].students) = Len(got[p].students) + 1
                    /\ \A i \in 1 .. Len(got[p].students) :
                          RollNoCount(pending[p].students, got[p].students[i].roll_no) = 1
                    /\ RollNoCount(pending[p].students, req[p].roll_no) = 1
                    /\ pending[p].attendance = got[p].attendance

\* The lost update: two overlapping requests added students 001 and 002,
\* both were answered 201 with no file operation failing, and the file holds
\* one of the two students only.
C17_Witness ==
    /\ nfail = 0
    /\ \A p \in Procs : Done(p, "addStudent") /\ resp[p].status = 201
    /\ req[1].roll_no # req[2].roll_no
    /\ seq[1] + seq[2] = 3
    /\ file.kind = "object"
    /\ Len(file.students) = 1

(***************************************************************************)
(* The statistics of the synchronous variant, counted from the globals.    *)
(***************************************************************************)
\* The entries stored for roll number r, as <<date, position>>.
EntriesOf(r) ==
    {e \in (DOMAIN attendanceData) \X (1 .. 4) :
        /\ e[2] <= Len(attendanceData[e[1]])
        /\ attendanceData[e[1]][e[2]].roll_no = r}

PresentOf(r) ==
    Cardinality({e \in EntriesOf(r) : attendanceData[e[1]][e[2]].status = "present"})

\* Student a has a strictly higher attendance percentage than student b.
HigherPercent(a, b) ==
    LET pa == PresentOf(a)
        ta == Cardinality(EntriesOf(a))
        pb == PresentOf(b)
        tb == Cardinality(EntriesOf(b))
    IN  IF ta = 0 THEN FALSE
        ELSE IF tb = 0 THEN pa > 0
        ELSE pa * tb > pb * ta

\* The place of a name in the alphabetical order of the names.
NameIndex(name) ==
    CASE name = "Ann" -> 1 [] name = "Cy" -> 2 [] name = "Dan" -> 3 [] OTHER -> 0

\* C18: the list GET /api/rankings answers holds every student of the roster
\* once, under their name, in descending order of attendance percentage,
\* students of one percentage in ascending order of name, and the rank of
\* each student is 1 + the number of students whose percentage is strictly
\* higher.
C18_RankingsOrderAndRank ==
    reply.kind = "rankings" =>
        LET list == reply.list
            at == 1 .. Len(list)
        IN  /\ Len(list) = Len(studentList)
            /\ \A i \in at :
                  \E k \in 1 .. Len(studentList) :
                      /\ studentList[k].roll_no = list[i].roll_no
                      /\ studentList[k].name = list[i].name
            /\ \A i, j \in at : i # j => list[i].roll_no # list[j].roll_no
            /\ \A i, j \in at :
                  i < j =>
                      /\ ~HigherPercent(list[j].roll_no, list[i].roll_no)
                      /\ ~HigherPercent(list[i].roll_no, list[j].roll_no)
                            => NameIndex(list[i].name) <= NameIndex(list[j].name)
            /\ \A i \in at :
                  list[i].rank =
                      1 + Cardinality({k \in at :
                                HigherPercent(list[k].roll_no, list[i].roll_no)})

\* Four students in two groups of one percentage each, ranked 1, 1, 3, 3, the
\* first group in the order of the names and not in that of the roster.
C18_Witness ==
    /\ reply.kind = "rankings"
    /\ Len(reply.list) = 4
    /\ [i \in 1 .. 4 |-> reply.list[i].rank] = <<1, 1, 3, 3>>
    /\ studentList[1].roll_no = "001"
    /\ reply.list[1].name = "Cy"
    /\ reply.list[2].name = "Dan"

\* The entries of the day that name a student of the roster, by position.
ValidEntries(date) ==
    {i \in 1 .. Len(attendanceData[date]) :
        attendanceData[date][i].roll_no \in RosterRolls(studentList)}

PresentEntries(date) ==
    {i \in ValidEntries(date) : attendanceData[date][i].status = "present"}

\* The rate of day a is at most that of day b.
RateAtMost(a, b) ==
    LET pa == Cardinality(PresentEntries(a))
        va == Cardinality(ValidEntries(a))
        pb == Cardinality(PresentEntries(b))
        vb == Cardinality(ValidEntries(b))
    IN  IF va = 0 THEN TRUE
        ELSE IF vb = 0 THEN pa = 0
        ELSE pa * vb <= pb * va

DaysWithEntries == {d \in DOMAIN attendanceData : Len(attendanceData[d]) > 0}

\* C19: the best and the worst day GET /api/metrics reports are days that
\* have at least one entry, of the highest and of the lowest rate among such
\* days, and both are "-" when no day has an entry.
C19_BestWorstOverDaysWithEntries ==
    reply.kind = "metrics" =>
        IF DaysWithEntries = {}
        THEN reply.bestDay = [date |-> "-"] /\ reply.worstDay = [date |-> "-"]
        ELSE /\ reply.bestDay.date \in DaysWithEntries
             /\ reply.worstDay.date \in DaysWithEntries
             /\ \A d \in DaysWithEntries :
                   /\ RateAtMost(d, reply.bestDay.date)
                   /\ RateAtMost(reply.worstDay.date, d)

\* C20: the rate GET /api/metrics reports for each stored day is 100 times
\* the number of the day's entries that name a student of the roster and
\* have status present, divided by the number of the day's entries that name
\* a student of the roster; it is 0 when no entry of the day names one, and
\* it lies between 0 and 100.
C20_DailyRate ==
    reply.kind = "metrics" =>
        /\ DOMAIN reply.dailyRates = DOMAIN attendanceData
        /\ \A date \in DOMAIN attendanceData :
              LET rate == reply.dailyRates[date]
                  present == Cardinality(PresentEntries(date))
                  valid == Cardinality(ValidEntries(date))
              IN  /\ rate.d > 0
                  /\ valid = 0 => rate.n = 0
                  /\ valid > 0 => rate.n * valid = 100 * present * rate.d
                  /\ 0 <= rate.n
                  /\ rate.n <= 100 * rate.d

\* A day with an entry of nobody on the roster and a rate of 50, beside a
\* day whose entries name nobody on the roster.
C20_Witness ==
    /\ reply.kind = "metrics"
    /\ \E date \in DOMAIN attendanceData :
          /\ Cardinality(ValidEntries(date)) < Len(attendanceData[date])
          /\ Cardinality(PresentEntries(date)) = 1
          /\ Cardinality(ValidEntries(date)) = 2
          /\ reply.dailyRates[date] = [n |-> 50, d |-> 1]
    /\ \E date \in DOMAIN attendanceData :
          /\ Len(attendanceData[date]) > 0
          /\ ValidEntries(date) = {}
          /\ reply.dailyRates[date] = [n |-> 0, d |-> 1]

\* The valid entries of all days, as <<date, position>>, and those present.
AllValidEntries ==
    {e \in (DOMAIN attendanceData) \X (1 .. 4) : e[2] \in ValidEntries(e[1])}

AllPresentEntries ==
    {e \in AllValidEntries : e[2] \in PresentEntries(e[1])}

\* C21: the average GET /api/metrics reports is 100 times the number of
\* present entries of current students over all days, divided by the number
\* of entries of current students over all days, to the nearest tenth; it is
\* 0 when there is no such entry.
C21_OverallAverage ==
    reply.kind = "metrics" =>
        LET present == Cardinality(AllPresentEntries)
            valid == Cardinality(AllValidEntries)
            tenths == reply.avgAttendance
        IN  /\ valid = 0 => tenths = 0
            /\ valid > 0 =>
                  /\ 2 * valid * tenths <= 2000 * present + valid
                  /\ 2000 * present + valid < 2 * valid * (tenths + 1)

\* Two students, one day, one present and one absent: the average is 50.0%
\* and that day is the best and the worst day at 50.0%.
C21_Witness ==
    /\ reply.kind = "metrics"
    /\ [i \in 1 .. Len(studentList) |-> studentList[i].roll_no] = <<"001", "002">>
    /\ attendanceData =
          [d \in {"2024-01-01"} |->
              <<SyncEntry("001", "present"), SyncEntry("002", "absent")>>]
    /\ reply.avgAttendance = 500
    /\ reply.bestDay = [date |-> "2024-01-01", tenths |-> 500]
    /\ reply.worstDay = [date |-> "2024-01-01", tenths |-> 500]

\* The entries stored for roll number r that have the given status.
WithStatus(r, status) ==
    {e \in EntriesOf(r) : attendanceData[e[1]][e[2]].status = status}

\* C22: for every student of the roster, calculateMetrics counts as present,
\* absent and total the stored entries of the student's roll number that
\* have status present, that have status absent, and all of them; GET
\* /api/metrics/students reports these present and absent counts and the
\* percentage of present in total.  The counters are those of the roster
\* only, and the day rates and the overall average count no entry that names
\* nobody on the roster.
C22_StudentCounters ==
    LET metrics == calculateMetrics(studentList, attendanceData)
    IN  /\ DOMAIN metrics.studentMetrics = RosterRolls(studentList)
        /\ \A r \in RosterRolls(studentList) :
              /\ metrics.studentMetrics[r].present = Cardinality(WithStatus(r, "present"))
              /\ metrics.studentMetrics[r].absent = Cardinality(WithStatus(r, "absent"))
              /\ metrics.studentMetrics[r].total = Cardinality(EntriesOf(r))
        /\ \A date \in DOMAIN attendanceData :
              metrics.dailyRates[date] =
                  Percent(Cardinality(PresentEntries(date)),
                          Cardinality(ValidEntries(date)))
        /\ metrics.avgAttendance =
              Percent(Cardinality(AllPresentEntries), Cardinality(AllValidEntries))
        /\ reply.kind = "studentMetrics" =>
              /\ Len(reply.list) = Len(studentList)
              /\ \A i \in 1 .. Len(reply.list) :
                    LET row == reply.list[i]
                        total == Cardinality(EntriesOf(row.roll_no))
                    IN  /\ row.roll_no = studentList[i].roll_no
                        /\ row.present = Cardinality(WithStatus(row.roll_no, "present"))
                        /\ row.absent = Cardinality(WithStatus(row.roll_no, "absent"))
                        /\ total = 0 => row.attendance_percent = 0
                        /\ total > 0 =>
                              /\ 2 * total * row.attendance_percent
                                    <= 2000 * row.present + total
                              /\ 2000 * row.present + total
                                    < 2 * total * (row.attendance_percent + 1)

\* A student with a present entry and an entry of another status than
\* present and absent, a student with an absent entry, and an entry that
\* names nobody on the roster.
C22_Witness ==
    /\ reply.kind = "studentMetrics"
    /\ \E i \in 1 .. Len(reply.list) :
          /\ reply.list[i].present = 1
          /\ reply.list[i].absent = 0
          /\ reply.list[i].attendance_percent = 500
          /\ Cardinality(EntriesOf(reply.list[i].roll_no)) = 2
    /\ \E i \in 1 .. Len(reply.list) : reply.list[i].absent = 1
    /\ \E date \in DOMAIN attendanceData :
          Cardinality(ValidEntries(date)) < Len(attendanceData[date])

(***************************************************************************)
(* The cache of the server (src/server.js).                                *)
(***************************************************************************)
\* Request p went past validation, to loadData.
CalledLoad(p) == req[p] # NoRequest /\ Validate(req[p]).status = 0

\* C23 as stated: loadData reads the file only while the cache is empty.
\* (Requests one at a time.)
C23_NoReadWhenCached ==
    \A p \in Procs : pc[p] = "reading" => dataCache = NoObj

\* C23: loadData reads the backing file on every call, whether the cache is
\* populated or not, and returns the document that the text it read stands
\* for, or the empty document when the read failed: every request that went
\* past validation has read the file by the time it is answered.  (Requests
\* one at a time.)
C23_LoadAlwaysReads ==
    \A p \in Procs :
        /\ (CalledLoad(p) /\ pc[p] # "reading") => loaded[p] # Unread
        /\ (CalledLoad(p) /\ Returned(p) /\ loaded[p].kind # "absent")
              => got[p] = Backfilled(loaded[p])

\* A request that arrived when the cache was populated read the file, which
\* held a student, and was answered from it.
C23_Witness ==
    \E p \in Procs :
        /\ Done(p, "getStudents")
        /\ seq[p] >= 3
        /\ dataCache # NoObj
        /\ loaded[p].kind = "object"
        /\ Len(loaded[p].students) = 1
        /\ resp[p].students = loaded[p].students

\* C24: after a saveData call has succeeded, dataCache holds the document it
\* saved, and the loadData call of the next request, when its read of the
\* file succeeds, returns a document equal to it.  (Requests one at a time.)
C24_ReadYourWrites ==
    \A p \in Procs :
        /\ (pc[p] = "done" /\ lastSaved.seq = seq[p] /\ ~saveFailed[p])
              => /\ dataCache # NoObj
                 /\ heap[dataCache] = lastSaved.doc
        /\ (CalledLoad(p) /\ Returned(p) /\ ~ioFailed[p]
              /\ lastSaved.seq = seq[p] - 1)
              => got[p] = lastSaved.doc

\* The request before saved a document with a student and a bucket, and
\* loadData returned that document to this one.
C24_Witness ==
    \E p \in Procs :
        /\ Returned(p)
        /\ ~ioFailed[p]
        /\ seq[p] >= 1
        /\ lastSaved.seq = seq[p] - 1
        /\ Len(lastSaved.doc.students) = 1
        /\ DOMAIN lastSaved.doc.attendance # {}
        /\ got[p] = lastSaved.doc

\* C25: when the saveData call of a mutating request has failed, dataCache
\* holds the document as loadData returned it to the request, without the
\* edits of the handler.  (Requests one at a time.)
C25_FailedSaveLeavesCache ==
    \A p \in Procs :
        (pc[p] = "done" /\ req[p].op \in Mutating /\ saveFailed[p])
        => /\ dataCache # NoObj
           /\ heap[dataCache] = got[p]

\* The text holds the mutation request r asks for.
HoldsMutation(text, r) ==
    /\ text.kind = "object"
    /\ r.op = "addStudent" => RollNoCount(text.students, r.roll_no) >= 1
    /\ r.op = "removeStudent" =>
          /\ RollNoCount(text.students, r.roll_no) = 0
          /\ \A e \in Entries(text) : e.roll_no # r.roll_no
    /\ r.op = "setAttendance" => HasBucket(text, SubjectOf(r), r.date)

\* C26: a mutating request is answered 200 or 201 only after its handler has
\* called saveData with a document that holds its mutation and the write of
\* that call has completed: while the write is pending the request has no
\* response, and a request whose write failed is not answered 200 or 201.
\* (Requests may overlap.)
C26_SuccessAfterWrite ==
    \A p \in Procs :
        req[p].op \in Mutating =>
            /\ InFlight(p) => resp[p] = NoResponse
            /\ (pc[p] = "done" /\ resp[p].status \in {200, 201})
                  => /\ saves[p] = 1
                     /\ opens[p] >= 1
                     /\ ~saveFailed[p]
                     /\ HoldsMutation(pending[p], req[p])
            /\ (pc[p] = "done" /\ saveFailed[p]) => resp[p].status = 500

\* A removal was answered 200 after its write, while another request was in
\* flight.
C26_Witness ==
    \E p, q \in Procs :
        /\ Done(p, "removeStudent")
        /\ resp[p].status = 200
        /\ opens[p] = 1
        /\ InFlight(q)

\* C27: the load at process start, finding the file absent or unparsable,
\* creates the empty document and saves it: the file has been opened for
\* writing, and when no file operation failed the file holds a document once
\* start-up is over.
C27_StartupSavesDefault ==
    \A p \in Procs :
        (Done(p, "startup") /\ loaded[p].kind \in {"absent", "unparsable", "empty"})
        => /\ got[p] = [students |-> << >>, attendance |-> [k \in {} |-> << >>]]
           /\ ioFailed[p] \/ (opens[p] = 1 /\ file.kind = "object")

\* C27: the load at process start, finding the file absent, creates the
\* empty document and saves it, so that the file holds a document once a
\* start-up without a failed file operation is over; finding the file
\* unparsable, it returns the empty document and does not save: the file
\* keeps its text.
C27_StartupSavesDefaultWhenAbsent ==
    \A p \in Procs :
        Done(p, "startup") =>
            /\ loaded[p].kind = "absent"
                  => /\ got[p] = [students |-> << >>, attendance |-> [k \in {} |-> << >>]]
                     /\ ioFailed[p] \/ (opens[p] = 1 /\ file = Stringify(got[p]))
            /\ loaded[p].kind \in {"unparsable", "empty"}
                  => /\ got[p] = [students |-> << >>, attendance |-> [k \in {} |-> << >>]]
                     /\ opens[p] = 0
                     /\ file = loaded[p]

\* Start-up found no file and has written the empty document.
C27_Witness ==
    \E p \in Procs :
        /\ Done(p, "startup")
        /\ loaded[p].kind = "absent"
        /\ ~ioFailed[p]
        /\ opens[p] = 1
        /\ file.kind = "object"
        /\ file.students = << >>

\* C28: when the text loadData read does not parse, the document it returns
\* is the empty document, and a mutating request that then succeeds leaves a
\* file that holds its own effect and nothing else: the student it added
\* alone, or no student, and no attendance entry.  (Requests one at a time.)
C28_ParseFailureStartsOver ==
    \A p \in Procs :
        (CalledLoad(p) /\ Returned(p) /\ loaded[p].kind \in {"empty", "unparsable"})
        => /\ got[p] = [students |-> << >>, attendance |-> [k \in {} |-> << >>]]
           /\ (pc[p] = "done" /\ req[p].op \in Mutating /\ resp[p].status \in {200, 201})
                 => /\ file.kind = "object"
                    /\ Entries(file) = {}
                    /\ req[p].op # "addStudent" => file.students = << >>
                    /\ req[p].op = "addStudent"
                          => /\ Len(file.students) = 1
                             /\ file.students[1].roll_no = req[p].roll_no
                             /\ file.students[1].name = req[p].name

\* A student was added on a file whose text did not parse: the file holds
\* that student alone.
C28_Witness ==
    \E p \in Procs :
        /\ Done(p, "addStudent")
        /\ resp[p].status = 201
        /\ loaded[p].kind = "empty"
        /\ seq[p] >= 3
        /\ Len(file.students) = 1

\* Request p was rejected by the validation of its handler.
Rejected(p) == req[p] # NoRequest /\ Validate(req[p]).status # 0

\* C29: a request that validation rejects (addStudent without roll_no or
\* name; getAttendance, setAttendance or print with a malformed date or an
\* empty subject; setAttendance with a body that is no array or has an
\* invalid entry) is answered 400 in the step it arrives: it never calls
\* loadData or saveData, and the step leaves the file, dataCache and the
\* documents in memory as they were.
C29_RejectedBeforeLoad ==
    /\ [](\A p \in Procs :
            Rejected(p) =>
                /\ pc[p] = "done"
                /\ resp[p].status = 400
                /\ loaded[p] = Unread
                /\ saves[p] = 0
                /\ opens[p] = 0)
    /\ [][\A p \in Procs :
            (seq'[p] # seq[p] /\ Validate(req'[p]).status # 0)
            => /\ file' = file
               /\ dataCache' = dataCache
               /\ heap' = heap]_allVars

\* A setAttendance request with a body that is no array was answered 400, the
\* file holding a student.
C29_Witness ==
    \E p \in Procs :
        /\ Done(p, "setAttendance")
        /\ IsDateFormat(req[p].date)
        /\ ~req[p].isArray
        /\ resp[p].status = 400
        /\ loaded[p] = Unread
        /\ file.kind = "object"
        /\ Len(file.students) = 1

(***************************************************************************)
(* The abstract document model: the operations as they are specified, on   *)
(* a document whose roster is in ascending order of roll_no.               *)
(***************************************************************************)
AbsAddStudent(doc, r) ==
    IF r.roll_no = "" \/ r.name = "" \/ RollNoCount(doc.students, r.roll_no) > 0
    THEN doc
    ELSE LET old == doc.students
             new == [roll_no |-> r.roll_no, name |-> r.name,
                     course |-> IF r.course = "" THEN "N/A" ELSE r.course]
             pos == 1 + Cardinality({i \in 1 .. Len(old) :
                            RollOrder(old[i].roll_no) <= RollOrder(r.roll_no)})
         IN  [students |->
                 [j \in 1 .. Len(old) + 1 |->
                     IF j < pos THEN old[j] ELSE IF j = pos THEN new ELSE old[j - 1]],
              attendance |-> doc.attendance]

AbsRemoveStudent(doc, r) ==
    IF RollNoCount(doc.students, r.roll_no) = 0
    THEN doc
    ELSE [students |-> Without(doc.students, {r.roll_no}),
          attendance |->
             [s \in DOMAIN doc.attendance |->
                 [d \in DOMAIN doc.attendance[s] |->
                     Without(doc.attendance[s][d], {r.roll_no})]]]

AbsSetAttendance(doc, r) ==
    IF r.date \notin GoodDates \/ SubjectOf(r) = "" \/ ~WellShaped(r)
    THEN doc
    ELSE LET att == doc.attendance
             subject == SubjectOf(r)
             datesOf(s) == (IF s \in DOMAIN att THEN DOMAIN att[s] ELSE {})
                               \cup (IF s = subject THEN {r.date} ELSE {})
         IN  [students |-> doc.students,
              attendance |->
                 [s \in (DOMAIN att) \cup {subject} |->
                     [d \in datesOf(s) |->
                         IF s = subject /\ d = r.date
                         THEN ExpectedBucket(r.body, doc.students)
                         ELSE att[s][d]]]]

AbsApply(doc, r) ==
    CASE r.op = "addStudent" -> AbsAddStudent(doc, r)
      [] r.op = "removeStudent" -> AbsRemoveStudent(doc, r)
      [] r.op = "setAttendance" -> AbsSetAttendance(doc, r)
      [] OTHER -> doc

\* C30: with requests one at a time and no failed file operation, the server
\* refines the abstract document model, the abstract document being the one
\* the file holds between requests.  It is the empty document once start-up
\* is over; loadData returns to every request the document the file held
\* when the request arrived; and when the request has been answered, the
\* file and dataCache hold the document that the specified operation gives
\* from that one.
C30_RefinesDocumentModel ==
    nfail = 0 =>
        \A p \in Procs :
            /\ (CalledLoad(p) /\ Returned(p)) => got[p] = Backfilled(before[p])
            /\ Done(p, "startup") => file = Stringify([students |-> << >>,
                                                      attendance |-> [k \in {} |-> << >>]])
            /\ (pc[p] = "done" /\ req[p] # NoRequest)
                  => LET abs == AbsApply(Backfilled(before[p]), req[p])
                     IN  /\ file.kind = "object"
                         /\ file.fields = {"students", "attendance"}
                         /\ Backfilled(file) = abs
                         /\ dataCache # NoObj
                         /\ heap[dataCache] = abs

\* The fourth request removed a student who had an entry in a bucket that
\* keeps another entry.
C30_Witness ==
    \E p \in Procs :
        /\ nfail = 0
        /\ Done(p, "removeStudent")
        /\ resp[p].status = 200
        /\ seq[p] = 4
        /\ Len(file.students) = 1
        /\ \E e \in Entries(file) : e.roll_no = file.students[1].roll_no
        /\ \E e \in Entries(before[p]) : e.roll_no = req[p].roll_no

(***************************************************************************)
(* The documents the server persists.                                      *)
(***************************************************************************)
\* Every entry of the text names a student of the roster of the text.
Referential(text) ==
    \A e \in Entries(text) : RollNoCount(text.students, e.roll_no) > 0

\* C31: every document that reaches the file, and every document a handler
\* hands to saveData, holds only entries whose roll_no is that of a student of
\* its own roster, whatever the requests and however the load-to-save windows
\* of removeStudent and setAttendance requests overlap.
C31_ReferentialIntegrity ==
    /\ file.kind = "object" => Referential(file)
    /\ \A p \in Procs :
          (pc[p] \in {"writing", "flushing"} /\ pending[p].kind = "object")
              => Referential(pending[p])

\* A setAttendance request loaded the roster before a removeStudent request
\* saved, and saved after it: the file holds an entry of the student removed,
\* and the student.
C31_Witness ==
    \E p, q \in Procs :
        /\ Done(p, "removeStudent")
        /\ resp[p].status = 200
        /\ Done(q, "setAttendance")
        /\ resp[q].status = 200
        /\ file.kind = "object"
        /\ \E e \in Entries(file) : e.roll_no = req[p].roll_no
        /\ RollNoCount(file.students, req[p].roll_no) = 1

\* Every entry of the text carries the name of the student of the roster of
\* the text with its roll_no.
NamesAgree(text) ==
    \A e \in Entries(text) :
        \A i \in 1 .. Len(text.students) :
            text.students[i].roll_no = e.roll_no => text.students[i].name = e.name

\* C32: in every document that reaches the file, and in every document a
\* handler hands to saveData, each attendance entry carries the name of the
\* student of the roster with the same roll_no, whatever the operations
\* before, a removal followed by adding the roll_no again under another name
\* included.
C32_EntryNamesMatchRoster ==
    /\ file.kind = "object" => NamesAgree(file)
    /\ \A p \in Procs :
          (pc[p] \in {"writing", "flushing"} /\ pending[p].kind = "object")
              => NamesAgree(pending[p])

\* A roll_no that had attendance stored under one name was removed and has
\* just been added again under another name.
C32_Witness ==
    \E p \in Procs :
        /\ Done(p, "addStudent")
        /\ resp[p].status \in {200, 201}
        /\ file.kind = "object"
        /\ \E i \in 1 .. Len(file.students) :
              /\ file.students[i].roll_no = req[p].roll_no
              /\ file.students[i].name = req[p].name
              /\ \E s \in DOMAIN lastSet : \E d \in DOMAIN lastSet[s] :
                    \E k \in 1 .. Len(lastSet[s][d]) :
                        /\ lastSet[s][d][k].roll_no = req[p].roll_no
                        /\ lastSet[s][d][k].name # req[p].name

(***************************************************************************)
(* The cache and the file.                                                 *)
(***************************************************************************)
\* C33: whenever no request is in flight, no file operation has failed, the
\* file parses and the texts the requests read parsed, the object dataCache
\* refers to equals the document in the file - also when reads and writes of
\* overlapping requests settled in another order than they took effect.
C33_CacheEqualsFile ==
    (/\ Quiet
     /\ nfail = 0
     /\ file.kind = "object"
     /\ \A p \in Procs : loaded[p].kind \notin {"empty", "unparsable"})
        => heap[dataCache] = ParseAndBackfill(file)

(***************************************************************************)
(* Requests that only read.                                                *)
(***************************************************************************)
ReadOps == {"getStudents", "getAttendanceAll", "getAttendance", "print"}

\* C34: a read request (GET students, GET attendance, GET attendance of a
\* subject and date, print view) never asks for a save of its own, opens the
\* file for writing only to create the default file after its read found the
\* file absent, and leaves a file that existed when it arrived as it was,
\* unparsable or not, also when its read fails.
C34_ReadsLeaveFile ==
    \A p \in Procs :
        req[p].op \in ReadOps =>
            /\ saves[p] = 0
            /\ (pc[p] \in {"writing", "flushing"} \/ opens[p] > 0)
                  => (loaded[p].kind = "absent" /\ before[p].kind = "absent")
            /\ before[p].kind # "absent" => file = before[p]

\* A read request was answered on a file that does not parse, and the file is
\* the text it was.
C34_Witness ==
    \E p \in Procs :
        /\ pc[p] = "done"
        /\ req[p].op \in ReadOps
        /\ resp[p].status = 200
        /\ loaded[p].kind = "unparsable"
        /\ file = before[p]
        /\ file.kind = "unparsable"

\* A read request found the file absent and created the default file.
C34_WitnessCreated ==
    \E p \in Procs :
        /\ pc[p] = "done"
        /\ req[p].op \in ReadOps
        /\ before[p].kind = "absent"
        /\ opens[p] = 1
        /\ file = Stringify(EmptyDoc)

(***************************************************************************)
(* Every request is answered.                                              *)
(***************************************************************************)
\* The handler of request p has returned and, for an API request, has sent
\* its response.
Answered(p) == pc[p] = "done" /\ (req[p].op # "startup" => resp[p].status # 0)

\* C35: provided every file read and write completes or fails, every request
\* received is answered in the end, and answered once: while its handler
\* waits for the file it has sent nothing yet, and it sends its one response
\* when it ends.
C35_EveryRequestAnswered ==
    /\ [](\A p \in Procs : pc[p] \notin {"idle", "done"} => resp[p] = NoResponse)
    /\ \A p \in Procs : (pc[p] \notin {"idle", "done"}) ~> Answered(p)

\* The same for the requests whose handler gets past its first statement.
C35_AnsweredOnceLoading ==
    /\ [](\A p \in Procs : InFlight(p) => resp[p] = NoResponse)
    /\ \A p \in Procs : InFlight(p) ~> Answered(p)

(***************************************************************************)
(* The flat-schema variant: counters, re-added students, failed saves.     *)
(***************************************************************************)
\* C36: in the metrics calculateMetrics computes from the roster and the
\* attendance lists that POST /api/attendance/:date accepted and stored,
\* every student has present + absent = total.
C36_PresentPlusAbsentIsTotal ==
    LET studentMetrics == calculateMetrics(studentList, attendanceData).studentMetrics
    IN  \A r \in DOMAIN studentMetrics :
            studentMetrics[r].present + studentMetrics[r].absent
                = studentMetrics[r].total

\* The step is DELETE /api/students/r answered 200.
RemovedNow(r) ==
    /\ reply'.kind = "removeStudent"
    /\ reply'.status = 200
    /\ r \in RosterRolls(studentList)
    /\ r \notin RosterRolls(studentList')

\* The roster once POST /api/students has added r again: the handler pushes
\* the student and touches nothing else.
Readded(students, r) == Append(students, [roll_no |-> r, name |-> SyncName(r)])

\* C37: when removeStudent(r) has succeeded, the metrics of a student added
\* again under roll_no r, before any attendance is recorded, have present,
\* absent and total all zero: nothing stored for the student removed is
\* counted for the new one.
C37_ReaddedStartsFromZero ==
    [][\A r \in SyncRolls :
          RemovedNow(r) =>
              LET metrics ==
                      calculateMetrics(Readded(studentList', r),
                                       attendanceData').studentMetrics[r]
              IN  /\ metrics.present = 0
                  /\ metrics.absent = 0
                  /\ metrics.total = 0]_allVars

\* C38: when the save fails in POST /api/attendance/:date or in POST
\* /api/students (the request is answered 500), the roster and the attendance
\* lists in memory are what they were before the request, the list stored
\* before for the date included.
C38_FailedSaveRestoresMemory ==
    [][(reply'.kind \in {"setAttendance", "addStudent"} /\ reply'.status = 500)
          => (studentList' = studentList /\ attendanceData' = attendanceData)]_allVars
====
